---- MODULE Spec2Model ----
(***************************************************************************)
(* The arturo conductor core: the payload automaton (src/src/automaton.rs) *)
(* driven through the conductor (src/src/conductor.rs).                    *)
(*                                                                         *)
(* Every method that takes a lock is one atomic action.  Conductor::commit *)
(* takes several locks one after the other, so it is a process with a      *)
(* program counter, and acknowledge, certify, submit_proposal, start, stop *)
(* and handle_epoch_change may run between any two of its steps.           *)
(***************************************************************************)
EXTENDS Naturals, Sequences, FiniteSets, TLC

(* ---------------------------------------------------------------- bounds *)
MaxHeight == 1
MaxData == 2
MaxThreshold == 2
MaxEpoch == 1
\* API calls made on one conductor in a run
MaxCalls == 5
\* heights and genesis heights of the chains built by commit and acknowledge
MaxChainHeight == 3
\* Height::MAX: Height is u64, whose top value 2^64 - 1 is modelled as the top
\* of a 3-bit range.
HeightTop == 7
MaxChainGenesis == 1
\* participants of the round-robin policy, and the epochs it is advanced to
RRNodes == 3
MaxRREpoch == 4
\* the epochs a subscribed policy is advanced to
MaxPolicyEpoch == 18
\* the epochs a policy that is asked about its state is advanced to, and the
\* peers a health-based policy is constructed with
MaxManagerEpoch == 4
MaxPeers == 2
MaxStaticLen == 2
MaxBlocks == 6
MaxCommitsPerEpoch == 3

(* ------------------------------------------------------ program constants *)
\* broadcast::channel(16) in RoundRobinEpochManager::new and
\* HealthBasedEpochManager::new
ChannelCapacity == 16
\* StaticSequencersProvider::single: for epoch in 0..1000
SingleEpochs == 1000
\* MockEpochManager::quorum_threshold returns Some(2) for every epoch.
MockQuorum == 2
\* ConductorConfig::default().quorum_threshold
DefaultQuorum == 1

(* ------------------------------------------------------------ Option<T> *)
None == << >>
Some(x) == << x >>
IsSome(o) == o # None
Unwrap(o) == o[1]

(* ------------------------------------------------------------- payloads *)
Heights == 0 .. MaxHeight
Data == 1 .. MaxData

\* TestPayload::digest hashes the height and the data (not the parent); the
\* hash is modelled as the pair it is computed from.
Digest(p) == << p.height, p.data >>

\* The parents a caller supplies for a payload of height h: none, or the
\* digest of the payload with data 1 one height below (of height 0 at height
\* 0).  It matches a latest certified payload with data 1 and mismatches one
\* with other data.
ParentsAt(h) == {None, Some(<< (IF h = 0 THEN 0 ELSE h - 1), 1 >>)}

Payloads ==
    UNION {[height : {h}, data : Data, parent : ParentsAt(h)] : h \in Heights}

\* submit_proposal and certify never read a payload's parent, and the digest
\* does not cover it: the payloads handed to them directly carry none.
DirectPayloads == {p \in Payloads : p.parent = None}

\* The genesis payload tried for with_genesis: height 0, no parent.
GenesisPayloads == {[height |-> 0, data |-> 1, parent |-> None]}

\* Payloads at the bottom and at the top of the range of Height.
TopPayloads ==
    [height : {0, HeightTop - 1, HeightTop}, data : {1}, parent : {None}]

\* The payloads of a longer chain, one per height and parent, and the genesis
\* payloads tried for it.
ChainHeights == 0 .. MaxChainHeight
ChainPayloads ==
    UNION {[height : {h}, data : {1}, parent : ParentsAt(h)] : h \in ChainHeights}
ChainGenesisPayloads ==
    {[height |-> h, data |-> 1, parent |-> None] : h \in 0 .. MaxChainGenesis}

(* ---------------------------------------------------------- PendingPayload *)
\* PendingPayload::new
PendingNew(payload, threshold) ==
    [payload |-> payload, acks |-> 0, threshold |-> threshold]

\* PendingPayload::is_certified
IsCertifiedStrict(pp) == pp.acks > pp.threshold

IsCertified(pp) == pp.acks >= pp.threshold

\* PendingPayload::acknowledge
PendingAck(pp) == [pp EXCEPT !.acks = pp.acks + 1]

(* ------------------------------------------------------------------ state *)
VARIABLES
    latest_certified,  \* PayloadState.latest_certified : Option<P>
    pending,           \* PayloadState.pending : Option<PendingPayload<P>>
    by_height,         \* PayloadState.by_height : BTreeMap<Height, P>
    digest_sent,       \* what was sent on the one-shot of the pending proposal
    running,           \* ConductorState.running
    current_epoch,     \* ConductorState.current_epoch
    is_sequencer,      \* ConductorState.is_sequencer
    em_is_sequencer,   \* MockEpochManager.is_sequencer (fixed at construction)
    em_quorum,         \* what the epoch manager's quorum_threshold returns
    pc,                \* where each commit call stands
    arg,               \* the payload each commit call was given
    thr,               \* the threshold each commit call looked up
    rx,                \* the one-shot receiver each commit call awaits
    chained,           \* whether lastOk was the latest certified payload when
                       \* the commit call validated its payload
    ret,               \* the call that returned in the last step, with its result
    lastOk,            \* the payload of the last commit that returned Ok
    ackCalls,          \* acknowledge calls since the last submit_proposal
    subThr,            \* the threshold given to the last submit_proposal
    calls,             \* API calls made so far
    rr_config,         \* participants and self_key each node's
                       \* RoundRobinEpochManager was constructed with
    rr_state,          \* EpochState of each node's RoundRobinEpochManager
    nodes,             \* ConductorState of each node's conductor
    rr_change,         \* the EpochChange the sidecar is handing to the nodes
    rr_handled,        \* the nodes that have handled rr_change
    ep_kind,           \* the epoch policy behind the channel
    hb_config,         \* what the HealthBasedEpochManager was constructed with
    hb_healthy,        \* the peer URLs the HealthTracker reports healthy
    hb_epoch,          \* EpochState.epoch of the health-based policy
    hb_leader,         \* EpochState.leader of the health-based policy
    poll_pc,           \* where each poll_and_update call stands
    poll_new_leader,   \* the new_leader each poll_and_update call computed
    chan,              \* the values sent on epoch_tx, oldest first
    sub_next,          \* the subscriber's position in chan (0: no subscriber)
    sub_last,          \* the last EpochChange the subscriber's stream gave
    sub_ended,         \* the subscriber's stream has returned None
    sp_provider,       \* the StaticSequencersProvider and how it was built
    automata,          \* PayloadState of each demo participant's automaton
    sidecar,           \* the locals of Sidecar::run and where it stands
    q_ret              \* the last call made on the epoch policy, with its result

automaton == << latest_certified, pending, by_height, digest_sent >>
conductor == << running, current_epoch, is_sequencer >>
callers == << pc, arg, thr, rx, chained >>
epoch_manager == << em_is_sequencer, em_quorum >>
vars == << latest_certified, pending, by_height, digest_sent, running,
           current_epoch,
           is_sequencer, em_is_sequencer, em_quorum, pc, arg, thr, rx, chained,
           ret, lastOk, ackCalls, subThr, calls,
           rr_config, rr_state, nodes, rr_change, rr_handled,
           ep_kind, hb_config, hb_healthy, hb_epoch, hb_leader, poll_pc,
           poll_new_leader, chan, sub_next, sub_last, sub_ended, sp_provider,
           automata, sidecar, q_ret >>

\* one conductor with its automaton and the calls made on it
core == << automaton, conductor, epoch_manager, callers, ret, lastOk, ackCalls,
           subThr, calls >>
\* a group of conductors over the round-robin policy
group == << rr_state, nodes, rr_change, rr_handled >>
\* an epoch policy, its broadcast channel and a subscriber
stream == << ep_kind, hb_epoch, hb_leader, poll_pc, poll_new_leader, chan,
             sub_next, sub_last, sub_ended >>
\* what the epoch policies and providers were constructed with
setup == << rr_config, hb_config, sp_provider >>
\* the demo: the participants' automata and the sidecar that drives them
demo == << automata, sidecar >>
policy == << group, stream, setup, demo, hb_healthy, q_ret >>

\* The tasks that may be inside Conductor::commit (the conductor is Clone and
\* commit takes &self).
Committers == {"c1"}

\* Two tasks that call commit on clones of one conductor at the same time.
RaceCommitters == {"c1", "c2"}

(* ---------------------------------------------------------------- results *)
\* One more API call is made on the conductor.
NewCall == calls < MaxCalls /\ calls' = calls + 1

\* op: the call; out: the Option<P> acknowledge returned; err: the result of
\* commit, with the fields of InvalidHeight; prev: at an Ok, the payload of the
\* successful commit before it, and whether that payload was the latest
\* certified one when this commit validated; change: the EpochChange given to
\* handle_epoch_change; answer: the argument and the value of genesis or
\* verify.
Ret(op, out, err, expected, got) ==
    [op |-> op, out |-> out, err |-> err, expected |-> expected, got |-> got,
     prev |-> None, chained |-> FALSE, change |-> None, answer |-> None]

\* a step inside commit that returns nothing to the caller yet
NoRet == Ret("step", None, "", 0, 0)

\* A call on an epoch policy: op, its argument, what it returned, and the
\* EpochChange values it sent on epoch_tx.
PolicyRet(op, a, result, sent) ==
    [op |-> op, arg |-> a, result |-> result, sent |-> sent]

\* no call has been made on the policy
NoPolicyRet == PolicyRet("none", None, None, << >>)

(* ------------------------------------------------------- PayloadAutomaton *)
\* BTreeMap::insert
MapInsert(m, h, p) == (h :> p) @@ m

\* PayloadAutomaton::get_by_height
GetByHeight(h) == IF h \in DOMAIN by_height THEN Some(by_height[h]) ELSE None

\* next_height without the successor
NextHeightNoSucc ==
    IF IsSome(latest_certified) THEN Unwrap(latest_certified).height ELSE 0

\* p.height() + 1 in next_height and validate leaves the range of Height
HeightOverflows ==
    IsSome(latest_certified) /\ Unwrap(latest_certified).height = HeightTop

\* PayloadAutomaton::next_height, as a build without overflow checks computes
\* it: the successor wraps around at Height::MAX.
NextHeight ==
    IF IsSome(latest_certified)
    THEN (Unwrap(latest_certified).height + 1) % (HeightTop + 1)
    ELSE 0

\* validate without its height check
ValidateParentOnly(payload) ==
    \/ ~IsSome(payload.parent)
    \/ /\ IsSome(latest_certified)
       /\ payload.parent = Some(Digest(Unwrap(latest_certified)))

\* validate accepting any parent while nothing is certified
ValidateEmptyAnyParent(payload) ==
    /\ payload.height = NextHeight
    /\ \/ ~IsSome(payload.parent)
       \/ ~IsSome(latest_certified)
       \/ payload.parent = Some(Digest(Unwrap(latest_certified)))

\* validate accepting any height from the expected one on
ValidateHeightAtLeast(payload) ==
    /\ payload.height >= NextHeight
    /\ \/ ~IsSome(payload.parent)
       \/ /\ IsSome(latest_certified)
          /\ payload.parent = Some(Digest(Unwrap(latest_certified)))

\* PayloadAutomaton::validate
Validate(payload) ==
    LET expected_height == NextHeight
        expected_parent ==
            IF IsSome(latest_certified)
            THEN Some(Digest(Unwrap(latest_certified)))
            ELSE None
    IN  IF payload.height # expected_height
        THEN FALSE
        ELSE IF IsSome(payload.parent) /\ payload.parent # expected_parent
             THEN FALSE
             ELSE TRUE

\* a one-shot whose sender is dropped without a send
OneshotDropped(digest) == None

\* oneshot::Sender::send: the value the receiver will yield
OneshotSend(digest) == Some(digest)

\* a submit_proposal that keeps a proposal that is already pending
SubmitWriteKeepPrior(payload, threshold) ==
    /\ pending' = IF IsSome(pending) THEN pending
                  ELSE Some(PendingNew(payload, threshold))
    /\ digest_sent' = IF IsSome(pending) THEN digest_sent
                      ELSE OneshotSend(Digest(payload))
    /\ UNCHANGED << latest_certified, by_height >>
    /\ ackCalls' = 0
    /\ subThr' = Some(threshold)

\* The critical section of PayloadAutomaton::submit_proposal: pending is
\* replaced and the digest is sent on the new one-shot.
SubmitWrite(payload, threshold) ==
    /\ pending' = Some(PendingNew(payload, threshold))
    /\ digest_sent' = OneshotSend(Digest(payload))
    /\ UNCHANGED << latest_certified, by_height >>
    /\ ackCalls' = 0
    /\ subThr' = Some(threshold)

\* PayloadAutomaton::submit_proposal called directly on conductor.automaton()
SubmitProposal ==
    \E payload \in DirectPayloads, threshold \in 0 .. MaxThreshold :
        /\ NewCall
        /\ SubmitWrite(payload, threshold)
        /\ ret' = Ret("submit_proposal", None, "", 0, 0)
        /\ UNCHANGED << conductor, epoch_manager, callers, lastOk >>
        /\ UNCHANGED policy

\* The certification in PayloadAutomaton::acknowledge: the payload is indexed
\* by height, becomes the latest, and pending is cleared, under one write lock.
AckCertifyNoIndex(pp) ==
    /\ latest_certified' = Some(pp.payload)
    /\ pending' = None
    /\ digest_sent' = None
    /\ UNCHANGED by_height

AckCertify(pp) ==
    /\ by_height' = MapInsert(by_height, pp.payload.height, pp.payload)
    /\ latest_certified' = Some(pp.payload)
    /\ pending' = None
    /\ digest_sent' = None

\* PayloadAutomaton::acknowledge (Conductor::acknowledge forwards to it)
Acknowledge ==
    /\ NewCall
    /\ IF IsSome(pending)
       THEN LET pp == PendingAck(Unwrap(pending))
            IN  IF IsCertified(pp)
                THEN /\ AckCertify(pp)
                     /\ ret' = Ret("acknowledge", Some(pp.payload), "", 0, 0)
                ELSE /\ pending' = Some(pp)
                     /\ UNCHANGED << latest_certified, by_height, digest_sent >>
                     /\ ret' = Ret("acknowledge", None, "", 0, 0)
       ELSE /\ UNCHANGED automaton
            /\ ret' = Ret("acknowledge", None, "", 0, 0)
    /\ ackCalls' = ackCalls + 1
    /\ UNCHANGED << conductor, epoch_manager, callers, lastOk, subThr >>
    /\ UNCHANGED policy

\* should_update accepting an equal height
ShouldUpdateGe(payload) ==
    IF IsSome(latest_certified)
    THEN payload.height >= Unwrap(latest_certified).height
    ELSE TRUE

\* should_update in PayloadAutomaton::certify
ShouldUpdate(payload) ==
    IF IsSome(latest_certified)
    THEN payload.height > Unwrap(latest_certified).height
    ELSE TRUE

\* PayloadAutomaton::certify (Conductor::certify forwards to it)
CertifyOf(payloads) ==
    \E payload \in payloads :
        /\ NewCall
        /\ by_height' = MapInsert(by_height, payload.height, payload)
        /\ latest_certified' =
               IF ShouldUpdate(payload) THEN Some(payload) ELSE latest_certified
        /\ UNCHANGED << pending, digest_sent >>
        /\ ret' = Ret("certify", None, "", 0, 0)
        /\ UNCHANGED << conductor, epoch_manager, callers, lastOk,
                        ackCalls, subThr >>
        /\ UNCHANGED policy

Certify == CertifyOf(DirectPayloads)

\* <P::Digest as Digest>::EMPTY: the digest of all zero bytes, which no
\* payload hashes to
EmptyDigest == << 0, 0 >>

\* The digests given to verify.
Digests == {Digest(p) : p \in Payloads} \cup {EmptyDigest}

\* a genesis() that answers EMPTY unless a payload of height 0 is the latest
GenesisHeightZero(epoch) ==
    IF IsSome(latest_certified) /\ Unwrap(latest_certified).height = 0
    THEN Digest(Unwrap(latest_certified))
    ELSE EmptyDigest

\* Automaton::genesis of PayloadAutomaton
Genesis(epoch) ==
    IF IsSome(latest_certified)
    THEN Digest(Unwrap(latest_certified))
    ELSE EmptyDigest

\* Automaton::verify of PayloadAutomaton: the digest of the pending payload
\* when there is one, else that of any payload in by_height
Verify(digest) ==
    IF IsSome(pending)
    THEN Digest(Unwrap(pending).payload) = digest
    ELSE \E h \in DOMAIN by_height : Digest(by_height[h]) = digest

\* genesis(epoch) is called on the automaton
GenesisCall ==
    \E epoch \in 0 .. MaxEpoch :
        /\ ret' = [Ret("genesis", None, "", 0, 0)
                      EXCEPT !.answer = Some([arg |-> epoch,
                                              value |-> Genesis(epoch)])]
        /\ UNCHANGED << automaton, conductor, epoch_manager, callers, lastOk,
                        ackCalls, subThr, calls >>
        /\ UNCHANGED policy

\* verify(ctx, digest) is called on the automaton
VerifyCall ==
    \E digest \in Digests :
        /\ ret' = [Ret("verify", None, "", 0, 0)
                      EXCEPT !.answer = Some([arg |-> digest,
                                              value |-> Verify(digest)])]
        /\ UNCHANGED << automaton, conductor, epoch_manager, callers, lastOk,
                        ackCalls, subThr, calls >>
        /\ UNCHANGED policy

\* The outcomes of a call that computes p.height() + 1: the value, and at
\* Height::MAX either the panic of a build with overflow checks or the value
\* of a build without them.
SuccOutcomes == IF HeightOverflows THEN {"panic", "wrap"} ELSE {"value"}

\* PayloadAutomaton::next_height called
NextHeightCall ==
    \E outcome \in SuccOutcomes :
        /\ ret' = IF outcome = "panic"
                  THEN Ret("next_height", None, "panic", 0, 0)
                  ELSE [Ret("next_height", None, "", 0, 0)
                           EXCEPT !.answer = Some([arg |-> None,
                                                   value |-> NextHeight])]
        /\ UNCHANGED << automaton, conductor, epoch_manager, callers, lastOk,
                        ackCalls, subThr, calls >>
        /\ UNCHANGED policy

\* PayloadAutomaton::validate called with a payload
ValidateCall ==
    \E payload \in TopPayloads, outcome \in SuccOutcomes :
        /\ ret' = IF outcome = "panic"
                  THEN Ret("validate", None, "panic", 0, 0)
                  ELSE [Ret("validate", None, "", 0, 0)
                           EXCEPT !.answer = Some([arg |-> payload,
                                                   value |-> Validate(payload)])]
        /\ UNCHANGED << automaton, conductor, epoch_manager, callers, lastOk,
                        ackCalls, subThr, calls >>
        /\ UNCHANGED policy

(* ------------------------------------------------------- MockEpochManager *)
\* MockEpochManager::current_epoch
MockCurrentEpoch == 0

\* MockEpochManager::sequencer
MockSequencer(epoch) == Some("sequencer")

\* MockEpochManager::is_sequencer
MockIsSequencer(key) == em_is_sequencer

\* MockEpochManager::quorum_threshold
MockQuorumThreshold(epoch) == Some(MockQuorum)

\* EpochManager::quorum_threshold returns an Option: the epoch managers a
\* conductor is built over answer as the mock does, or with None.
QuorumAnswers == {MockQuorumThreshold(0), None}

\* epoch_manager.quorum_threshold(epoch)
QuorumThreshold(epoch) == em_quorum

\* the threshold of commit taken from the configuration alone
ThresholdConfigOnly(epoch) == DefaultQuorum

\* the threshold commit submits with: the epoch manager's, else the configured
ThresholdFor(epoch) ==
    LET q == QuorumThreshold(epoch)
    IN  IF IsSome(q) THEN Unwrap(q) ELSE DefaultQuorum

(* -------------------------------------------------------------- Conductor *)
\* Conductor::start
Start ==
    /\ NewCall
    /\ running' = TRUE
    /\ current_epoch' = MockCurrentEpoch
    /\ is_sequencer' =
           IF IsSome(MockSequencer(MockCurrentEpoch))
           THEN MockIsSequencer(Unwrap(MockSequencer(MockCurrentEpoch)))
           ELSE is_sequencer
    /\ ret' = Ret("start", None, "", 0, 0)
    /\ UNCHANGED << automaton, epoch_manager, callers, lastOk, ackCalls, subThr >>
    /\ UNCHANGED policy

\* stop giving up the sequencer role as well
StopResetsRole ==
    /\ NewCall
    /\ running' = FALSE
    /\ is_sequencer' = FALSE
    /\ ret' = Ret("stop", None, "", 0, 0)
    /\ UNCHANGED << current_epoch, automaton, epoch_manager,
                    callers, lastOk, ackCalls, subThr >>
    /\ UNCHANGED policy

\* handle_epoch_change ignoring a change that is not for a later epoch
HandleEpochChangeNewerOnly ==
    \E epoch \in 0 .. MaxEpoch, is_self \in BOOLEAN :
        /\ NewCall
        /\ IF epoch > current_epoch
           THEN current_epoch' = epoch /\ is_sequencer' = is_self
           ELSE UNCHANGED << current_epoch, is_sequencer >>
        /\ ret' = [Ret("handle_epoch_change", None, "", 0, 0) EXCEPT
                      !.change = Some([epoch |-> epoch, is_self |-> is_self])]
        /\ UNCHANGED << running, automaton, epoch_manager, callers, lastOk,
                        ackCalls, subThr >>
        /\ UNCHANGED policy

\* Conductor::stop
Stop ==
    /\ NewCall
    /\ running' = FALSE
    /\ ret' = Ret("stop", None, "", 0, 0)
    /\ UNCHANGED << current_epoch, is_sequencer, automaton, epoch_manager,
                    callers, lastOk, ackCalls, subThr >>
    /\ UNCHANGED policy

\* Conductor::handle_epoch_change
HandleEpochChange ==
    \E epoch \in 0 .. MaxEpoch, is_self \in BOOLEAN :
        /\ NewCall
        /\ current_epoch' = epoch
        /\ is_sequencer' = is_self
        /\ ret' = [Ret("handle_epoch_change", None, "", 0, 0) EXCEPT
                      !.change = Some([epoch |-> epoch, is_self |-> is_self])]
        /\ UNCHANGED << running, automaton, epoch_manager, callers, lastOk,
                        ackCalls, subThr >>
        /\ UNCHANGED policy

\* the sequencer check asking the epoch manager instead of the cached flag
CommitCheckSequencerEm(c) ==
    \E payload \in Payloads :
        /\ pc[c] = "idle"
        /\ NewCall
        /\ IF ~em_is_sequencer
           THEN /\ ret' = Ret("commit", None, "NotSequencer", 0, 0)
                /\ UNCHANGED << pc, arg >>
           ELSE /\ pc' = [pc EXCEPT ![c] = "validate"]
                /\ arg' = [arg EXCEPT ![c] = Some(payload)]
                /\ ret' = NoRet
        /\ UNCHANGED << automaton, conductor, epoch_manager, thr, rx, chained,
                        lastOk, ackCalls, subThr >>
        /\ UNCHANGED policy

\* Conductor::commit called with one of the given payloads: the sequencer
\* check (read lock on the conductor state).
CommitCall(c, payloads) ==
    \E payload \in payloads :
        /\ pc[c] = "idle"
        /\ NewCall
        /\ IF ~is_sequencer
           THEN /\ ret' = Ret("commit", None, "NotSequencer", 0, 0)
                /\ UNCHANGED << pc, arg >>
           ELSE /\ pc' = [pc EXCEPT ![c] = "validate"]
                /\ arg' = [arg EXCEPT ![c] = Some(payload)]
                /\ ret' = NoRet
        /\ UNCHANGED << automaton, conductor, epoch_manager, thr, rx, chained,
                        lastOk, ackCalls, subThr >>
        /\ UNCHANGED policy

\* Conductor::commit called with a payload
CommitCheckSequencer(c) == CommitCall(c, Payloads)

\* Conductor::commit called with a payload of a longer chain
CommitChainCheckSequencer(c) == CommitCall(c, ChainPayloads)

\* Conductor::commit called with a payload that carries no parent
CommitDirectCheckSequencer(c) == CommitCall(c, DirectPayloads)

\* Conductor::commit called with a payload at the bottom or top of Height
CommitTopCheckSequencer(c) == CommitCall(c, TopPayloads)

\* Conductor::commit, self.automaton.validate(&payload) (read lock).
CommitValidate(c) ==
    /\ UNCHANGED calls
    /\ pc[c] = "validate"
    /\ pc' = [pc EXCEPT ![c] =
                 IF Validate(Unwrap(arg[c])) THEN "epoch" ELSE "next_height"]
    /\ chained' = [chained EXCEPT ![c] =
                      /\ Validate(Unwrap(arg[c]))
                      /\ IsSome(lastOk)
                      /\ latest_certified = lastOk]
    /\ ret' = NoRet
    /\ UNCHANGED << automaton, conductor, epoch_manager, arg, thr, rx, lastOk,
                    ackCalls, subThr >>
    /\ UNCHANGED policy

\* Conductor::commit after a failed validate: self.automaton.next_height()
\* (a second read lock) decides which error is returned.
CommitNextHeight(c) ==
    /\ UNCHANGED calls
    /\ pc[c] = "next_height"
    /\ LET expected_height == NextHeight
           got_height == Unwrap(arg[c]).height
       IN  ret' = IF expected_height # got_height
                  THEN Ret("commit", None, "InvalidHeight",
                           expected_height, got_height)
                  ELSE Ret("commit", None, "ValidationFailed", 0, 0)
    /\ pc' = [pc EXCEPT ![c] = "idle"]
    /\ arg' = [arg EXCEPT ![c] = None]
    /\ UNCHANGED << automaton, conductor, epoch_manager, thr, rx, chained,
                    lastOk, ackCalls, subThr >>
    /\ UNCHANGED policy

\* Conductor::commit, the threshold: current_epoch is read under the read
\* lock, then epoch_manager.quorum_threshold(epoch), else the configured one.
CommitThreshold(c) ==
    /\ UNCHANGED calls
    /\ pc[c] = "epoch"
    /\ LET epoch == current_epoch
       IN  thr' = [thr EXCEPT ![c] = ThresholdFor(epoch)]
    /\ pc' = [pc EXCEPT ![c] = "submit"]
    /\ ret' = NoRet
    /\ UNCHANGED << automaton, conductor, epoch_manager, arg, rx, chained,
                    lastOk, ackCalls, subThr >>
    /\ UNCHANGED policy

\* Conductor::commit, self.automaton.submit_proposal(payload, threshold):
\* pending is written and the digest is sent on the one-shot (write lock).
CommitSubmit(c) ==
    /\ UNCHANGED calls
    /\ pc[c] = "submit"
    /\ SubmitWrite(Unwrap(arg[c]), thr[c])
    /\ rx' = [rx EXCEPT ![c] = digest_sent']
    /\ pc' = [pc EXCEPT ![c] = "await"]
    /\ ret' = NoRet
    /\ UNCHANGED << conductor, epoch_manager, arg, thr, chained, lastOk >>
    /\ UNCHANGED policy

\* Conductor::commit, rx.await: Ok with the digest, ChannelClosed without.
CommitAwait(c) ==
    /\ UNCHANGED calls
    /\ pc[c] = "await"
    /\ IF IsSome(rx[c])
       THEN /\ ret' = [Ret("commit", None, "Ok", 0, 0)
                          EXCEPT !.prev = lastOk, !.chained = chained[c]]
            /\ lastOk' = arg[c]
       ELSE /\ ret' = Ret("commit", None, "ChannelClosed", 0, 0)
            /\ UNCHANGED lastOk
    /\ pc' = [pc EXCEPT ![c] = "idle"]
    /\ arg' = [arg EXCEPT ![c] = None]
    /\ thr' = [thr EXCEPT ![c] = 0]
    /\ rx' = [rx EXCEPT ![c] = None]
    /\ chained' = [chained EXCEPT ![c] = FALSE]
    /\ UNCHANGED << automaton, conductor, epoch_manager, ackCalls, subThr >>
    /\ UNCHANGED policy

\* Conductor::commit in a build with overflow checks: validate, or the
\* next_height read after a failed validate, panics at p.height() + 1 and the
\* call never returns a ConductorError.
CommitPanic(c) ==
    /\ UNCHANGED calls
    /\ pc[c] \in {"validate", "next_height"}
    /\ HeightOverflows
    /\ ret' = Ret("commit", None, "panic", 0, 0)
    /\ pc' = [pc EXCEPT ![c] = "idle"]
    /\ arg' = [arg EXCEPT ![c] = None]
    /\ UNCHANGED << thr, rx, chained, lastOk >>
    /\ UNCHANGED << automaton, conductor, epoch_manager, ackCalls, subThr >>
    /\ UNCHANGED policy

(* ---------------------------------------------------------- specification *)
\* no group of conductors is built in the run
NoGroup ==
    /\ rr_config = << >>
    /\ rr_state = << >>
    /\ nodes = << >>
    /\ rr_change = None
    /\ rr_handled = {}

\* no epoch policy is subscribed to in the run
NoStream ==
    /\ ep_kind = "none"
    /\ hb_config = None
    /\ hb_healthy = {}
    /\ q_ret = NoPolicyRet
    /\ hb_epoch = 0
    /\ hb_leader = None
    /\ poll_pc = << >>
    /\ poll_new_leader = << >>
    /\ chan = << >>
    /\ sub_next = 0
    /\ sub_last = None
    /\ sub_ended = FALSE

\* no StaticSequencersProvider is built in the run
NoProvider == sp_provider = None

\* no sidecar runs
NoDemo == automata = << >> /\ sidecar = None

NoPolicy == NoGroup /\ NoStream /\ NoProvider /\ NoDemo

\* Conductor::new / Conductor::with_genesis over a MockEpochManager, shared by
\* the tasks in committers.
InitWith(genesisPayloads, committers) ==
    /\ \E g \in {None} \cup {Some(p) : p \in genesisPayloads} :
          /\ latest_certified = g
          /\ by_height = IF IsSome(g) THEN (Unwrap(g).height :> Unwrap(g))
                         ELSE << >>
    /\ pending = None
    /\ digest_sent = None
    /\ running = FALSE
    /\ current_epoch = 0
    /\ is_sequencer = FALSE
    /\ em_is_sequencer \in BOOLEAN
    /\ em_quorum \in QuorumAnswers
    /\ pc = [c \in committers |-> "idle"]
    /\ arg = [c \in committers |-> None]
    /\ thr = [c \in committers |-> 0]
    /\ rx = [c \in committers |-> None]
    /\ chained = [c \in committers |-> FALSE]
    /\ ret = NoRet
    /\ lastOk = None
    /\ ackCalls = 0
    /\ subThr = None
    /\ calls = 0
    /\ NoPolicy

InitFrom(genesisPayloads) == InitWith(genesisPayloads, Committers)

Init == InitFrom(GenesisPayloads)

Next ==
    \/ SubmitProposal
    \/ Acknowledge
    \/ Certify
    \/ Start
    \/ Stop
    \/ HandleEpochChange
    \/ \E c \in Committers : CommitCheckSequencer(c)
    \/ \E c \in Committers : CommitValidate(c)
    \/ \E c \in Committers : CommitNextHeight(c)
    \/ \E c \in Committers : CommitThreshold(c)
    \/ \E c \in Committers : CommitSubmit(c)
    \/ \E c \in Committers : CommitAwait(c)

Spec == Init /\ [][Next]_vars

\* The conductor's own API only: commit, acknowledge, certify, start, stop and
\* handle_epoch_change, with no submit_proposal made on the automaton directly.
NextConductor ==
    \/ Acknowledge
    \/ Certify
    \/ Start
    \/ Stop
    \/ HandleEpochChange
    \/ \E c \in Committers : CommitCheckSequencer(c)
    \/ \E c \in Committers : CommitValidate(c)
    \/ \E c \in Committers : CommitNextHeight(c)
    \/ \E c \in Committers : CommitThreshold(c)
    \/ \E c \in Committers : CommitSubmit(c)
    \/ \E c \in Committers : CommitAwait(c)

ConductorSpec == Init /\ [][NextConductor]_vars

\* A chain advanced by commit and acknowledge only: neither certify nor a
\* direct submit_proposal is called.
ChainInit == InitFrom(ChainGenesisPayloads)

ChainNext ==
    \/ Acknowledge
    \/ Start
    \/ Stop
    \/ HandleEpochChange
    \/ \E c \in Committers : CommitChainCheckSequencer(c)
    \/ \E c \in Committers : CommitValidate(c)
    \/ \E c \in Committers : CommitNextHeight(c)
    \/ \E c \in Committers : CommitThreshold(c)
    \/ \E c \in Committers : CommitSubmit(c)
    \/ \E c \in Committers : CommitAwait(c)

ChainSpec == ChainInit /\ [][ChainNext]_vars

\* The automaton as the consensus engine and direct callers use it:
\* submit_proposal, acknowledge, certify, genesis and verify.
AutomatonNext ==
    \/ SubmitProposal
    \/ Acknowledge
    \/ Certify
    \/ GenesisCall
    \/ VerifyCall

AutomatonSpec == Init /\ [][AutomatonNext]_vars

\* A conductor whose clones are used by two tasks at once: commit calls that
\* interleave with each other and with acknowledge and certify.
RaceInit == InitWith(GenesisPayloads, RaceCommitters)

RaceNext ==
    \/ Acknowledge
    \/ Certify
    \/ Start
    \/ \E c \in RaceCommitters : CommitDirectCheckSequencer(c)
    \/ \E c \in RaceCommitters : CommitValidate(c)
    \/ \E c \in RaceCommitters : CommitNextHeight(c)
    \/ \E c \in RaceCommitters : CommitThreshold(c)
    \/ \E c \in RaceCommitters : CommitSubmit(c)
    \/ \E c \in RaceCommitters : CommitAwait(c)

RaceSpec == RaceInit /\ [][RaceNext]_vars

\* A conductor whose chain reaches the top of Height: built by new or by
\* with_genesis of any payload, then driven by certify, commit, acknowledge,
\* next_height and validate.
TopInit == InitFrom(TopPayloads)

TopNext ==
    \/ CertifyOf(TopPayloads)
    \/ Acknowledge
    \/ Start
    \/ NextHeightCall
    \/ ValidateCall
    \/ \E c \in Committers : CommitTopCheckSequencer(c)
    \/ \E c \in Committers : CommitValidate(c)
    \/ \E c \in Committers : CommitNextHeight(c)
    \/ \E c \in Committers : CommitThreshold(c)
    \/ \E c \in Committers : CommitSubmit(c)
    \/ \E c \in Committers : CommitAwait(c)
    \/ \E c \in Committers : CommitPanic(c)

TopSpec == TopInit /\ [][TopNext]_vars

(* ------------------------------------- conductors over RoundRobinEpochManager *)
\* The nodes of the group, numbered by their index in the participant list,
\* and the participants' public keys (distinct, in list order).
RRIndexes == 0 .. RRNodes - 1
RRParticipants == [i \in RRIndexes |-> 10 + i]

\* RoundRobinEpochManager::new: the participants (a Vec, indexed from 0) and
\* self_key, as given
RRNew(participants, self_key) ==
    [participants |-> participants, self_key |-> self_key]

\* participants.len() of the manager of node n
RRLen(n) == Cardinality(DOMAIN rr_config[n].participants)

\* self_key and self_idx of the manager of node n: self_idx is the first
\* position of self_key in participants, and 0 when it is not there
RRSelfKey(n) == rr_config[n].self_key
RRSelfIdx(n) ==
    LET participants == rr_config[n].participants
        found == {i \in DOMAIN participants : participants[i] = RRSelfKey(n)}
    IN  IF found = {} THEN 0
        ELSE CHOOSE i \in found : \A j \in found : i <= j

\* RoundRobinEpochManager::current_epoch
RRCurrentEpoch(n) == rr_state[n].epoch

\* a sequencer() that answers for the current epoch only
RRSequencerCurrentOnly(n, epoch) ==
    IF epoch = rr_state[n].epoch
    THEN Some(rr_config[n].participants[epoch % RRLen(n)])
    ELSE None

\* RoundRobinEpochManager::sequencer
RRSequencer(n, epoch) ==
    LET participants == rr_config[n].participants
        idx == epoch % RRLen(n)
    IN  IF idx \in DOMAIN participants THEN Some(participants[idx]) ELSE None

\* RoundRobinEpochManager::is_sequencer: the key is that of the participant at
\* sequencer_idx
RRIsSequencer(n, key) ==
    LET participants == rr_config[n].participants
        idx == rr_state[n].sequencer_idx
    IN  idx \in DOMAIN participants /\ participants[idx] = key

\* RoundRobinEpochManager::validators
RRValidators(n, epoch) == Some(rr_config[n].participants)

\* RoundRobinEpochManager::quorum_threshold
RRQuorumThreshold(n, epoch) == Some(RRLen(n) \div 2 + 1)

\* RoundRobinEpochManager::transfer_leader
RRTransferLeader(n) == "NotSupported"

\* Conductor::start on node n
NodeStart(n) ==
    /\ LET epoch == RRCurrentEpoch(n)
           sequencer == RRSequencer(n, epoch)
       IN  nodes' = [nodes EXCEPT ![n] =
               [running |-> TRUE,
                current_epoch |-> epoch,
                is_sequencer |->
                    IF IsSome(sequencer)
                    THEN RRIsSequencer(n, Unwrap(sequencer))
                    ELSE nodes[n].is_sequencer]]
    /\ UNCHANGED << rr_state, rr_change, rr_handled >>
    /\ UNCHANGED << core, demo, stream, setup, hb_healthy, q_ret >>

\* The EpochChange that advance_epoch on the manager of node n makes for the
\* given epoch.
RRChange(n, epoch) ==
    LET sequencer_idx == epoch % RRLen(n)
    IN  [epoch |-> epoch,
         sequencer |-> rr_config[n].participants[sequencer_idx],
         is_self |-> sequencer_idx = RRSelfIdx(n)]

\* a channel that hands out the newest value first
ChanSendFront(ch, change) == IF sub_next = 0 THEN ch ELSE << change >> \o ch

\* broadcast::Sender::send: the value is dropped when there is no receiver
ChanSend(ch, change) == IF sub_next = 0 THEN ch ELSE Append(ch, change)

\* RoundRobinEpochManager::advance_epoch on the manager of node n: the state
\* is written and the change is sent under one write lock, and the change is
\* returned.
AdvanceEpochOn(n) ==
    LET epoch == rr_state[n].epoch + 1
    IN  /\ rr_state' = [rr_state EXCEPT ![n] =
                [epoch |-> epoch, sequencer_idx |-> epoch % RRLen(n)]]
        /\ chan' = ChanSend(chan, RRChange(n, epoch))
        /\ q_ret' = PolicyRet("advance_epoch", None, Some(RRChange(n, epoch)),
                              << RRChange(n, epoch) >>)

\* Sidecar::advance_epoch, the call of RoundRobinEpochManager::advance_epoch
\* on the first participant's manager, once the change before it has been
\* handed to every participant.
SidecarAdvanceEpoch ==
    /\ rr_handled = RRIndexes \/ rr_change = None
    /\ rr_state[0].epoch < MaxRREpoch
    /\ AdvanceEpochOn(0)
    /\ rr_change' = Some(RRChange(0, rr_state[0].epoch + 1))
    /\ rr_handled' = {}
    /\ UNCHANGED nodes
    /\ UNCHANGED << ep_kind, hb_epoch, hb_leader, poll_pc, poll_new_leader,
                    sub_next, sub_last, sub_ended >>
    /\ UNCHANGED << core, demo, setup, hb_healthy >>

\* Sidecar::advance_epoch, one turn of its loop: participant n handles the
\* change with the is_self flag the sidecar computes for it.
NodeHandleEpochChange(n) ==
    /\ IsSome(rr_change)
    /\ n \notin rr_handled
    /\ LET change == Unwrap(rr_change)
           is_self == RRSelfIdx(n) = change.epoch % RRLen(n)
       IN  nodes' = [nodes EXCEPT ![n].current_epoch = change.epoch,
                                  ![n].is_sequencer = is_self]
    /\ rr_handled' = rr_handled \cup {n}
    /\ UNCHANGED << rr_state, rr_change >>
    /\ UNCHANGED << core, demo, stream, setup, hb_healthy, q_ret >>

\* one conductor that is constructed and never called
CoreIdle ==
    /\ latest_certified = None
    /\ by_height = << >>
    /\ pending = None
    /\ digest_sent = None
    /\ running = FALSE
    /\ current_epoch = 0
    /\ is_sequencer = FALSE
    /\ em_is_sequencer = FALSE
    /\ em_quorum = None
    /\ pc = [c \in Committers |-> "idle"]
    /\ arg = [c \in Committers |-> None]
    /\ thr = [c \in Committers |-> 0]
    /\ rx = [c \in Committers |-> None]
    /\ chained = [c \in Committers |-> FALSE]
    /\ ret = NoRet
    /\ lastOk = None
    /\ ackCalls = 0
    /\ subThr = None
    /\ calls = 0

\* Participant::new for every participant: RoundRobinEpochManager::new and
\* Conductor::new
RRInit ==
    /\ rr_config = [n \in RRIndexes |-> RRNew(RRParticipants, RRParticipants[n])]
    /\ rr_state = [n \in RRIndexes |-> [epoch |-> 0, sequencer_idx |-> 0]]
    /\ nodes = [n \in RRIndexes |->
                   [running |-> FALSE, current_epoch |-> 0,
                    is_sequencer |-> FALSE]]
    /\ rr_change = None
    /\ rr_handled = {}
    /\ CoreIdle
    /\ NoStream
    /\ NoProvider
    /\ NoDemo

RRNext ==
    \/ \E n \in RRIndexes : NodeStart(n)
    \/ SidecarAdvanceEpoch
    \/ \E n \in RRIndexes : NodeHandleEpochChange(n)

RRSpec == RRInit /\ [][RRNext]_vars

(* ------------------------------------------------------------ the demo *)
\* PayloadAutomaton::new
AutoNew == [latest_certified |-> None, pending |-> None, by_height |-> << >>]

\* PayloadAutomaton::next_height on the automaton state a
AutoNextHeight(a) ==
    IF IsSome(a.latest_certified)
    THEN (Unwrap(a.latest_certified).height + 1) % (HeightTop + 1)
    ELSE 0

\* PayloadAutomaton::validate on the automaton state a
AutoValidate(a, payload) ==
    LET expected_parent ==
            IF IsSome(a.latest_certified)
            THEN Some(Digest(Unwrap(a.latest_certified)))
            ELSE None
    IN  IF payload.height # AutoNextHeight(a) THEN FALSE
        ELSE IF IsSome(payload.parent) /\ payload.parent # expected_parent
             THEN FALSE
             ELSE TRUE

\* PayloadAutomaton::submit_proposal on the automaton state a
AutoSubmitProposal(a, payload, threshold) ==
    [a EXCEPT !.pending = Some(PendingNew(payload, threshold))]

\* PayloadAutomaton::acknowledge on the automaton state a
AutoAcknowledge(a) ==
    IF IsSome(a.pending)
    THEN LET pp == PendingAck(Unwrap(a.pending))
         IN  IF IsCertified(pp)
             THEN [latest_certified |-> Some(pp.payload),
                   pending |-> None,
                   by_height |-> MapInsert(a.by_height, pp.payload.height,
                                           pp.payload)]
             ELSE [a EXCEPT !.pending = Some(pp)]
    ELSE a

\* DemoPayload::new(height, "block-{block_num}")
DemoPayload(height, block_num) ==
    [height |-> height, data |-> block_num, parent |-> None]

\* Sidecar::find_leader: the first participant whose conductor is leader
FindLeader ==
    IF \E n \in RRIndexes : nodes[n].is_sequencer
    THEN Some(CHOOSE n \in RRIndexes :
                 /\ nodes[n].is_sequencer
                 /\ \A m \in RRIndexes : m < n => ~nodes[m].is_sequencer)
    ELSE None

\* The threshold Conductor::commit of participant n submits with:
\* Participant::new configures participant_count() / 2 + 1 as the fallback.
DemoThreshold(n) ==
    LET q == RRQuorumThreshold(n, nodes[n].current_epoch)
    IN  IF IsSome(q) THEN Unwrap(q) ELSE RRLen(n) \div 2 + 1

\* What Conductor::commit of participant n returns for the payload.
DemoCommitResult(n, payload) ==
    IF ~nodes[n].is_sequencer THEN "NotSequencer"
    ELSE IF ~AutoValidate(automata[n], payload)
         THEN IF AutoNextHeight(automata[n]) # payload.height
              THEN "InvalidHeight" ELSE "ValidationFailed"
         ELSE "Ok"

\* Sidecar::run, a tick: the leader is found, its next_height is read and the
\* payload of the next block is built. A tick without a leader changes nothing.
SidecarPropose ==
    /\ sidecar.pc = "tick"
    /\ sidecar.certified_blocks < MaxBlocks
    /\ IsSome(FindLeader)
    /\ LET leader == Unwrap(FindLeader)
           block_num == sidecar.certified_blocks + 1
           conductor_height == AutoNextHeight(automata[leader])
       IN  sidecar' = [sidecar EXCEPT
               !.pc = "commit",
               !.leader = Some(leader),
               !.payload = Some(DemoPayload(conductor_height, block_num))]
    /\ UNCHANGED << core, group, stream, setup, automata, hb_healthy, q_ret >>

\* Sidecar::run, leader.commit(payload): the round goes on when it is Ok and
\* starts over at the next tick when it is not.
SidecarCommit ==
    /\ sidecar.pc = "commit"
    /\ LET leader == Unwrap(sidecar.leader)
           payload == Unwrap(sidecar.payload)
           result == DemoCommitResult(leader, payload)
       IN  /\ automata' =
                 IF result = "Ok"
                 THEN [automata EXCEPT ![leader] =
                          AutoSubmitProposal(automata[leader], payload,
                                             DemoThreshold(leader))]
                 ELSE automata
           /\ sidecar' = [sidecar EXCEPT
                 !.pc = IF result = "Ok" THEN "acks" ELSE "tick",
                 !.idx = 0]
    /\ UNCHANGED << core, group, stream, setup, hb_healthy, q_ret >>

\* Sidecar::run, one turn of the loop over the participants:
\* participant.acknowledge() on the participant's own conductor.
SidecarAcknowledge ==
    /\ sidecar.pc = "acks"
    /\ LET n == sidecar.idx
       IN  /\ automata' = [automata EXCEPT ![n] = AutoAcknowledge(automata[n])]
           /\ sidecar' = [sidecar EXCEPT
                 !.idx = n + 1,
                 !.pc = IF n + 1 \in RRIndexes THEN "acks" ELSE "certified"]
    /\ UNCHANGED << core, group, stream, setup, hb_healthy, q_ret >>

\* Sidecar::run after the loop: certified_blocks and commit_count are counted
\* up, and the epoch is advanced every commits_per_epoch commits.
SidecarCount ==
    /\ sidecar.pc = "certified"
    /\ LET rotate == sidecar.commit_count + 1 >= sidecar.commits_per_epoch
       IN  sidecar' = [sidecar EXCEPT
               !.certified_blocks = sidecar.certified_blocks + 1,
               !.commit_count = IF rotate THEN 0 ELSE sidecar.commit_count + 1,
               !.current_epoch = IF rotate THEN sidecar.current_epoch + 1
                                 ELSE sidecar.current_epoch,
               !.pc = IF rotate THEN "advance" ELSE "tick"]
    /\ UNCHANGED << core, group, stream, setup, automata, hb_healthy, q_ret >>

\* Sidecar::advance_epoch, first.epoch_manager().advance_epoch()
DemoAdvanceEpoch ==
    /\ sidecar.pc = "advance"
    /\ AdvanceEpochOn(0)
    /\ rr_change' = Some(RRChange(0, rr_state[0].epoch + 1))
    /\ rr_handled' = {}
    /\ sidecar' = [sidecar EXCEPT !.pc = "notify", !.idx = 0]
    /\ UNCHANGED nodes
    /\ UNCHANGED << ep_kind, hb_epoch, hb_leader, poll_pc, poll_new_leader,
                    sub_next, sub_last, sub_ended >>
    /\ UNCHANGED << core, setup, automata, hb_healthy >>

\* Sidecar::advance_epoch, one turn of the loop over the participants:
\* participant.handle_epoch_change with the is_self computed for it.
DemoHandleEpochChange ==
    /\ sidecar.pc = "notify"
    /\ LET n == sidecar.idx
           change == Unwrap(rr_change)
           is_self == RRSelfIdx(n) = change.epoch % RRLen(n)
       IN  /\ nodes' = [nodes EXCEPT ![n].current_epoch = change.epoch,
                                     ![n].is_sequencer = is_self]
           /\ rr_handled' = rr_handled \cup {n}
           /\ sidecar' = [sidecar EXCEPT
                 !.idx = n + 1,
                 !.pc = IF n + 1 \in RRIndexes THEN "notify" ELSE "tick"]
    /\ UNCHANGED << rr_state, rr_change >>
    /\ UNCHANGED << core, stream, setup, automata, hb_healthy, q_ret >>

\* The demo's main up to sidecar.spawn(): Participant::new for every
\* participant, start() on each, then handle_epoch_change for epoch 0 with
\* is_self on the first participant only; Sidecar::run starts with its
\* counters at 0.
DemoInit ==
    /\ rr_config = [n \in RRIndexes |-> RRNew(RRParticipants, RRParticipants[n])]
    /\ rr_state = [n \in RRIndexes |-> [epoch |-> 0, sequencer_idx |-> 0]]
    /\ nodes = [n \in RRIndexes |->
                   [running |-> TRUE, current_epoch |-> 0,
                    is_sequencer |-> n = 0]]
    /\ rr_change = None
    /\ rr_handled = {}
    /\ automata = [n \in RRIndexes |-> AutoNew]
    /\ \E commits_per_epoch \in 1 .. MaxCommitsPerEpoch :
          sidecar = [pc |-> "tick", commits_per_epoch |-> commits_per_epoch,
                     commit_count |-> 0, current_epoch |-> 0,
                     certified_blocks |-> 0, leader |-> None,
                     payload |-> None, idx |-> 0]
    /\ CoreIdle
    /\ NoStream
    /\ NoProvider

DemoNext ==
    \/ SidecarPropose
    \/ SidecarCommit
    \/ SidecarAcknowledge
    \/ SidecarCount
    \/ DemoAdvanceEpoch
    \/ DemoHandleEpochChange

DemoSpec == DemoInit /\ [][DemoNext]_vars

(* --------------------------------------------- epoch policies and subscribers *)
\* URLs are strings, modelled as sequences of character codes.
Urls == { << 1 >>, << 1, 0 >>, << 2 >>, << 3 >> }

\* The public key of the node that serves a URL.
NodeKey(url) == 10 * url[1] + Len(url) - 1

\* The URLs of a health-based node and of its peers, and the public keys of
\* the node and of its peers.
HealthSelfUrl == << 2 >>
HealthPeerUrls == << << 1 >>, << 3 >> >>
HealthPublicKey == NodeKey(HealthSelfUrl)
HealthPeerKeys == [j \in DOMAIN HealthPeerUrls |-> NodeKey(HealthPeerUrls[j])]

\* The tasks that may be inside poll_and_update / advance_epoch.
Pollers == {"p1", "p2"}

\* the elements of a Vec
Range(v) == {v[i] : i \in DOMAIN v}

\* Ord for String: a <= b in lexicographic order
LexLe(a, b) ==
    \E k \in 0 .. Len(a) :
       /\ k <= Len(b)
       /\ \A i \in 1 .. k : a[i] = b[i]
       /\ \/ k = Len(a)
          \/ k < Len(b) /\ a[k + 1] < b[k + 1]

\* the shortest URL first, whatever its characters
FirstShortest(urls) == CHOOSE u \in urls : \A v \in urls : Len(u) <= Len(v)

\* candidates.sort(); candidates.first()
FirstSorted(urls) == CHOOSE u \in urls : \A v \in urls : LexLe(u, v)

\* Vec::sort
RECURSIVE SortVec(_)
SortVec(v) ==
    IF v = << >> THEN << >>
    ELSE LET first == FirstSorted(Range(v))
             k == CHOOSE i \in DOMAIN v :
                      v[i] = first /\ \A j \in 1 .. i - 1 : v[j] # first
         IN  << first >> \o SortVec(SubSeq(v, 1, k - 1) \o
                                    SubSeq(v, k + 1, Len(v)))

\* iter().position(..): the index, from 0, of the first element equal to x
Position(v, x) ==
    LET found == {i \in DOMAIN v : v[i] = x}
    IN  IF found = {} THEN None
        ELSE Some((CHOOSE i \in found : \A j \in found : i <= j) - 1)

\* Vec::get with an index from 0
VecGet(v, idx) == IF idx + 1 \in DOMAIN v THEN Some(v[idx + 1]) ELSE None

\* HealthBasedEpochManager::new: all_urls is peer_urls and self_url, sorted
HealthNew(self_url, peer_urls, public_key, peer_keys, quorum_threshold) ==
    [self_url |-> self_url, peer_urls |-> peer_urls, public_key |-> public_key,
     peer_keys |-> peer_keys, quorum_threshold |-> quorum_threshold,
     all_urls |-> SortVec(Append(peer_urls, self_url))]

\* state.try_read() succeeds: no poll_and_update holds the write lock
TryRead == \A p \in Pollers : poll_pc[p] # "locked"

\* HealthBasedEpochManager::key_for_url
KeyForUrl(url) ==
    LET idx == Position(hb_config.all_urls, url)
        self_idx == Position(hb_config.all_urls, hb_config.self_url)
    IN  IF idx = None THEN None
        ELSE IF ~TryRead THEN None
        ELSE IF url = hb_config.self_url THEN Some(hb_config.public_key)
        ELSE IF self_idx = None THEN None
        ELSE LET peer_idx == IF Unwrap(idx) < Unwrap(self_idx)
                             THEN Unwrap(idx) ELSE Unwrap(idx) - 1
             IN  VecGet(hb_config.peer_keys, peer_idx)

\* HealthBasedEpochManager::current_epoch
HealthCurrentEpoch == IF TryRead THEN hb_epoch ELSE 0

\* HealthBasedEpochManager::sequencer
HealthSequencer(epoch) ==
    IF ~TryRead THEN None
    ELSE IF epoch # hb_epoch THEN None
    ELSE IF hb_leader = None THEN None
    ELSE KeyForUrl(Unwrap(hb_leader))

\* HealthBasedEpochManager::is_sequencer
HealthIsSequencer(key) ==
    /\ key = hb_config.public_key
    /\ IF TryRead THEN hb_leader = Some(hb_config.self_url) ELSE FALSE

\* HealthBasedEpochManager::validators
HealthValidators(epoch) ==
    IF ~TryRead THEN None
    ELSE IF epoch # hb_epoch THEN None
    ELSE Some(Append(hb_config.peer_keys, hb_config.public_key))

\* HealthBasedEpochManager::transfer_leader
HealthTransferLeader == "NotSupported"

\* HealthBasedEpochManager::quorum_threshold
HealthQuorumThreshold(epoch) == Some(hb_config.quorum_threshold)

\* HealthBasedEpochManager::poll_and_update, up to drop(state): the health
\* checks leave some set of peers healthy in the tracker, and new_leader is
\* the first of the healthy URLs and the node's own in sorted order (read
\* lock).
PollRead(p) ==
    /\ ep_kind = "health"
    /\ poll_pc[p] = "idle"
    /\ TryRead
    /\ hb_epoch < MaxPolicyEpoch
    /\ \E healthy_peers \in SUBSET Range(hb_config.peer_urls) :
          LET candidates == healthy_peers \cup {hb_config.self_url}
          IN  /\ hb_healthy' = healthy_peers
              /\ poll_new_leader' =
                  [poll_new_leader EXCEPT ![p] = Some(FirstSorted(candidates))]
    /\ poll_pc' = [poll_pc EXCEPT ![p] = "write"]
    /\ UNCHANGED << ep_kind, hb_epoch, hb_leader, chan, sub_next, sub_last,
                    sub_ended, q_ret >>
    /\ UNCHANGED << core, demo, group, setup >>

\* HealthBasedEpochManager::poll_and_update, self.state.write().await: the
\* write lock is taken.
PollLock(p) ==
    /\ ep_kind = "health"
    /\ poll_pc[p] = "write"
    /\ TryRead
    /\ poll_pc' = [poll_pc EXCEPT ![p] = "locked"]
    /\ UNCHANGED << ep_kind, hb_epoch, hb_leader, poll_new_leader, chan,
                    sub_next, sub_last, sub_ended, hb_healthy, q_ret >>
    /\ UNCHANGED << core, demo, group, setup >>

\* the EpochChange poll_and_update makes
HealthChange(epoch, new_leader) ==
    [epoch |-> epoch,
     sequencer |-> hb_config.public_key,
     is_self |-> new_leader = Some(hb_config.self_url)]

\* a poll_and_update that sends a change at every poll
PollWriteAlways(p) ==
    /\ ep_kind = "health"
    /\ poll_pc[p] = "locked"
    /\ hb_leader' = poll_new_leader[p]
    /\ hb_epoch' = hb_epoch + 1
    /\ chan' = ChanSend(chan, HealthChange(hb_epoch + 1, poll_new_leader[p]))
    /\ q_ret' = PolicyRet("poll_and_update", None, None,
                   << HealthChange(hb_epoch + 1, poll_new_leader[p]) >>)
    /\ poll_pc' = [poll_pc EXCEPT ![p] = "idle"]
    /\ UNCHANGED << ep_kind, poll_new_leader, sub_next, sub_last, sub_ended,
                    hb_healthy >>
    /\ UNCHANGED << core, demo, group, setup >>

\* HealthBasedEpochManager::poll_and_update, under the write lock: when the
\* leader differs from new_leader it is replaced, the epoch is incremented and
\* the change is sent; the lock is released at the return.
PollWrite(p) ==
    /\ ep_kind = "health"
    /\ poll_pc[p] = "locked"
    /\ IF hb_leader # poll_new_leader[p]
       THEN /\ hb_leader' = poll_new_leader[p]
            /\ hb_epoch' = hb_epoch + 1
            /\ chan' = ChanSend(chan,
                   HealthChange(hb_epoch + 1, poll_new_leader[p]))
            /\ q_ret' = PolicyRet("poll_and_update", None, None,
                   << HealthChange(hb_epoch + 1, poll_new_leader[p]) >>)
       ELSE /\ UNCHANGED << hb_leader, hb_epoch, chan >>
            /\ q_ret' = PolicyRet("poll_and_update", None, None, << >>)
    /\ poll_pc' = [poll_pc EXCEPT ![p] = "idle"]
    /\ UNCHANGED << ep_kind, poll_new_leader, sub_next, sub_last, sub_ended,
                    hb_healthy >>
    /\ UNCHANGED << core, demo, group, setup >>

\* RoundRobinEpochManager::advance_epoch called on a subscribed manager
StreamAdvanceEpoch ==
    /\ ep_kind = "round_robin"
    /\ rr_state[0].epoch < MaxPolicyEpoch
    /\ AdvanceEpochOn(0)
    /\ UNCHANGED << nodes, rr_change, rr_handled >>
    /\ UNCHANGED << ep_kind, hb_epoch, hb_leader, poll_pc, poll_new_leader,
                    sub_next, sub_last, sub_ended >>
    /\ UNCHANGED << core, demo, setup, hb_healthy >>

\* subscribe(): self.epoch_tx.subscribe(), a receiver positioned after the
\* values sent so far
Subscribe ==
    /\ ep_kind # "none"
    /\ sub_next = 0
    /\ sub_next' = Len(chan) + 1
    /\ UNCHANGED << ep_kind, hb_epoch, hb_leader, poll_pc, poll_new_leader, chan,
                    sub_last, sub_ended, hb_healthy, q_ret >>
    /\ UNCHANGED << core, demo, group, setup >>

\* broadcast::Receiver::try_recv on a channel of ChannelCapacity slots: Empty,
\* Lagged when values the receiver has not seen were overwritten (the receiver
\* moves to the oldest value still held), else the next value.
TryRecv(ch, next) ==
    LET unread == Len(ch) - (next - 1)
    IN  IF unread = 0
        THEN [result |-> "Empty", next |-> next]
        ELSE IF unread > ChannelCapacity
             THEN [result |-> "Lagged", next |-> Len(ch) - ChannelCapacity + 1]
             ELSE [result |-> "Ok", value |-> ch[next], next |-> next + 1]

\* One poll of the stream subscribe() returns that does not find the channel
\* empty: Ok(change) gives Some(change), any error gives None, the end of the
\* stream.
StreamPoll ==
    /\ sub_next > 0
    /\ ~sub_ended
    /\ LET r == TryRecv(chan, sub_next)
       IN  /\ r.result # "Empty"
           /\ sub_next' = r.next
           /\ IF r.result = "Ok"
              THEN sub_last' = Some(r.value) /\ UNCHANGED sub_ended
              ELSE sub_ended' = TRUE /\ UNCHANGED sub_last
    /\ UNCHANGED << ep_kind, hb_epoch, hb_leader, poll_pc, poll_new_leader,
                    chan, hb_healthy, q_ret >>
    /\ UNCHANGED << core, demo, group, setup >>

\* RoundRobinEpochManager::new or HealthBasedEpochManager::new
StreamInit ==
    /\ ep_kind \in {"round_robin", "health"}
    /\ rr_config = IF ep_kind = "round_robin"
                   THEN [n \in {0} |-> RRNew(RRParticipants, RRParticipants[0])]
                   ELSE << >>
    /\ rr_state = IF ep_kind = "round_robin"
                  THEN [n \in {0} |-> [epoch |-> 0, sequencer_idx |-> 0]]
                  ELSE << >>
    /\ nodes = << >>
    /\ rr_change = None
    /\ rr_handled = {}
    /\ hb_config = IF ep_kind = "health"
                   THEN HealthNew(HealthSelfUrl, HealthPeerUrls,
                                  HealthPublicKey, HealthPeerKeys,
                                  DefaultQuorum)
                   ELSE None
    /\ hb_healthy = {}
    /\ hb_epoch = 0
    /\ hb_leader = None
    /\ poll_pc = [p \in Pollers |-> "idle"]
    /\ poll_new_leader = [p \in Pollers |-> None]
    /\ chan = << >>
    /\ sub_next = 0
    /\ sub_last = None
    /\ sub_ended = FALSE
    /\ q_ret = NoPolicyRet
    /\ NoProvider
    /\ NoDemo
    /\ CoreIdle

StreamNext ==
    \/ \E p \in Pollers : PollRead(p)
    \/ \E p \in Pollers : PollLock(p)
    \/ \E p \in Pollers : PollWrite(p)
    \/ StreamAdvanceEpoch
    \/ Subscribe
    \/ StreamPoll

StreamSpec == StreamInit /\ [][StreamNext]_vars

(* ------------------------------------------- one epoch policy and its callers *)
\* The keys a RoundRobinEpochManager is constructed with, and the participant
\* lists over them: every Vec of 1 to RRNodes keys, repeated keys included.
PolicyKeys == {RRParticipants[i] : i \in RRIndexes}
ParticipantLists == UNION {[0 .. k - 1 -> PolicyKeys] : k \in 1 .. RRNodes}

\* The peer_urls a HealthBasedEpochManager is constructed with: the URLs of up
\* to MaxPeers other nodes, in any order.
PeerUrlLists(self_url) ==
    {v \in UNION {[1 .. k -> Urls \ {self_url}] : k \in 0 .. MaxPeers} :
        \A i, j \in DOMAIN v : i # j => v[i] # v[j]}

\* The epochs the policy is asked about.
QueryEpochs == 0 .. MaxManagerEpoch + 1

\* The task main() spawns with spawn_health_poller.
MainPoller == "p1"

\* EpochManager::sequencer / validators / transfer_leader of the policy
PolicySequencer(epoch) ==
    IF ep_kind = "round_robin" THEN RRSequencer(0, epoch)
    ELSE HealthSequencer(epoch)
PolicyValidators(epoch) ==
    IF ep_kind = "round_robin" THEN RRValidators(0, epoch)
    ELSE HealthValidators(epoch)
PolicyTransferLeader ==
    IF ep_kind = "round_robin" THEN RRTransferLeader(0)
    ELSE HealthTransferLeader
PolicyCurrentEpoch ==
    IF ep_kind = "round_robin" THEN RRCurrentEpoch(0)
    ELSE HealthCurrentEpoch
PolicyQuorumThreshold(epoch) ==
    IF ep_kind = "round_robin" THEN RRQuorumThreshold(0, epoch)
    ELSE HealthQuorumThreshold(epoch)

\* a transfer_leader that succeeds
ConductorTransferOk == "Ok"

\* Conductor::transfer_leader: the result of the epoch manager's
ConductorTransferLeader == PolicyTransferLeader

\* RoundRobinEpochManager::advance_epoch
PolicyAdvanceEpoch ==
    /\ ep_kind = "round_robin"
    /\ rr_state[0].epoch < MaxManagerEpoch
    /\ StreamAdvanceEpoch

\* HealthBasedEpochManager::poll_and_update in the poller task
PolicyPollRead == hb_epoch < MaxManagerEpoch /\ PollRead(MainPoller)
PolicyPollLock == PollLock(MainPoller)
PolicyPollWrite == PollWrite(MainPoller)

\* a call that reads the policy and changes nothing
PolicyQuery(op, a, result) ==
    /\ q_ret' = PolicyRet(op, a, result, << >>)
    /\ UNCHANGED << core, demo, group, stream, setup, hb_healthy >>

\* sequencer(epoch) is called on the policy
QuerySequencer ==
    \E epoch \in QueryEpochs :
        PolicyQuery("sequencer", Some(epoch), PolicySequencer(epoch))

\* validators(epoch) is called on the policy
QueryValidators ==
    \E epoch \in QueryEpochs :
        PolicyQuery("validators", Some(epoch), PolicyValidators(epoch))

\* current_epoch() is called on the policy
QueryCurrentEpoch ==
    PolicyQuery("current_epoch", None, Some(PolicyCurrentEpoch))

\* transfer_leader() is called on the policy
TransferLeader == PolicyQuery("transfer_leader", None, PolicyTransferLeader)

\* Conductor::transfer_leader is called on the conductor over the policy
NodeTransferLeader ==
    PolicyQuery("conductor.transfer_leader", None, ConductorTransferLeader)

\* Conductor::start on the conductor over a HealthBasedEpochManager
HealthNodeStart(n) ==
    /\ ep_kind = "health"
    /\ LET epoch == HealthCurrentEpoch
           sequencer == HealthSequencer(epoch)
       IN  nodes' = [nodes EXCEPT ![n] =
               [running |-> TRUE,
                current_epoch |-> epoch,
                is_sequencer |->
                    IF IsSome(sequencer)
                    THEN HealthIsSequencer(Unwrap(sequencer))
                    ELSE nodes[n].is_sequencer]]
    /\ UNCHANGED << rr_state, rr_change, rr_handled >>
    /\ UNCHANGED << core, demo, stream, setup, hb_healthy, q_ret >>

\* Conductor::start on the conductor over the policy
PolicyNodeStart ==
    \/ ep_kind = "round_robin" /\ NodeStart(0)
    \/ HealthNodeStart(0)

\* RoundRobinEpochManager::new or HealthBasedEpochManager::new with any of the
\* inputs above, and Conductor::new over it
PolicyInitWith(thresholds) ==
    /\ ep_kind \in {"round_robin", "health"}
    /\ IF ep_kind = "round_robin"
       THEN /\ \E participants \in ParticipantLists, self_key \in PolicyKeys :
                  rr_config = [n \in {0} |-> RRNew(participants, self_key)]
            /\ rr_state = [n \in {0} |-> [epoch |-> 0, sequencer_idx |-> 0]]
            /\ hb_config = None
       ELSE /\ \E self_url \in Urls :
                \E peer_urls \in PeerUrlLists(self_url) :
                \E quorum_threshold \in thresholds :
                  hb_config = HealthNew(self_url, peer_urls, NodeKey(self_url),
                      [j \in DOMAIN peer_urls |-> NodeKey(peer_urls[j])],
                      quorum_threshold)
            /\ rr_config = << >>
            /\ rr_state = << >>
    /\ nodes = [n \in {0} |->
                   [running |-> FALSE, current_epoch |-> 0,
                    is_sequencer |-> FALSE]]
    /\ rr_change = None
    /\ rr_handled = {}
    /\ hb_healthy = {}
    /\ hb_epoch = 0
    /\ hb_leader = None
    /\ poll_pc = [p \in Pollers |-> "idle"]
    /\ poll_new_leader = [p \in Pollers |-> None]
    /\ chan = << >>
    /\ sub_next = 0
    /\ sub_last = None
    /\ sub_ended = FALSE
    /\ q_ret = NoPolicyRet
    /\ NoProvider
    /\ NoDemo
    /\ CoreIdle

\* the policy as the binary builds it with the default quorum_threshold
PolicyInit == PolicyInitWith({DefaultQuorum})

PolicyNext ==
    \/ PolicyAdvanceEpoch
    \/ PolicyPollRead
    \/ PolicyPollLock
    \/ PolicyPollWrite
    \/ QuerySequencer
    \/ QueryValidators
    \/ TransferLeader
    \/ NodeTransferLeader
    \/ PolicyNodeStart

PolicySpec == PolicyInit /\ [][PolicyNext]_vars

\* The policy's epoch as its callers see it: current_epoch() and
\* Conductor::start, which may run while the poller task is inside
\* poll_and_update.
EpochNext ==
    \/ PolicyAdvanceEpoch
    \/ PolicyPollRead
    \/ PolicyPollLock
    \/ PolicyPollWrite
    \/ QueryCurrentEpoch
    \/ PolicyNodeStart

EpochSpec == PolicyInit /\ [][EpochNext]_vars

\* The listener task of the binary, one turn of its loop that does not find
\* the channel empty: stream.next() gives the next change, which
\* Conductor::handle_epoch_change stores, or None, which ends the loop.
ListenerNext ==
    /\ sub_next > 0
    /\ ~sub_ended
    /\ LET r == TryRecv(chan, sub_next)
       IN  /\ r.result # "Empty"
           /\ sub_next' = r.next
           /\ IF r.result = "Ok"
              THEN /\ sub_last' = Some(r.value)
                   /\ nodes' = [nodes EXCEPT
                         ![0].current_epoch = r.value.epoch,
                         ![0].is_sequencer = r.value.is_self]
                   /\ UNCHANGED sub_ended
              ELSE /\ sub_ended' = TRUE
                   /\ UNCHANGED << sub_last, nodes >>
    /\ UNCHANGED << rr_state, rr_change, rr_handled >>
    /\ UNCHANGED << ep_kind, hb_epoch, hb_leader, poll_pc, poll_new_leader,
                    chan, hb_healthy, q_ret >>
    /\ UNCHANGED << core, demo, setup >>

\* The binary's main up to the spawning of its tasks:
\* HealthBasedEpochManager::new, Conductor::new and conductor.start(), which
\* finds epoch 0 without a sequencer and leaves is_sequencer false.
BinaryInit ==
    /\ ep_kind = "health"
    /\ hb_config = HealthNew(HealthSelfUrl, HealthPeerUrls, HealthPublicKey,
                             HealthPeerKeys, DefaultQuorum)
    /\ rr_config = << >>
    /\ rr_state = << >>
    /\ nodes = [n \in {0} |->
                   [running |-> TRUE, current_epoch |-> 0,
                    is_sequencer |-> FALSE]]
    /\ rr_change = None
    /\ rr_handled = {}
    /\ hb_healthy = {}
    /\ hb_epoch = 0
    /\ hb_leader = None
    /\ poll_pc = [p \in Pollers |-> "idle"]
    /\ poll_new_leader = [p \in Pollers |-> None]
    /\ chan = << >>
    /\ sub_next = 0
    /\ sub_last = None
    /\ sub_ended = FALSE
    /\ q_ret = NoPolicyRet
    /\ NoProvider
    /\ NoDemo
    /\ CoreIdle

\* the poller task, spawned first, and the listener task, which subscribes
\* when it first runs
BinaryNext ==
    \/ PolicyPollRead
    \/ PolicyPollLock
    \/ PolicyPollWrite
    \/ Subscribe
    \/ ListenerNext

\* Both tasks are spawned on the tokio runtime, which keeps running every
\* task that can make a step.
BinaryFairness ==
    /\ WF_vars(PolicyPollRead)
    /\ WF_vars(PolicyPollLock)
    /\ WF_vars(PolicyPollWrite)
    /\ WF_vars(Subscribe)
    /\ WF_vars(ListenerNext)

BinarySpec == BinaryInit /\ [][BinaryNext]_vars /\ BinaryFairness

(* ------------------------------------------------------------- providers *)
\* Set::from_iter_dedup: the ordered set of the items, duplicates dropped
SetFromIterDedup(items) == Range(items)

\* sequencers that asks the policy for the sequencer of its current epoch
EpochSequencersCurrent(epoch) ==
    LET sequencer == PolicySequencer(IF ep_kind = "round_robin"
                                     THEN RRCurrentEpoch(0)
                                     ELSE HealthCurrentEpoch)
    IN  IF sequencer = None THEN None
        ELSE Some(SetFromIterDedup(<< Unwrap(sequencer) >>))

\* <EpochSequencersProvider as SequencersProvider>::sequencers
EpochSequencers(epoch) ==
    LET sequencer == PolicySequencer(epoch)
    IN  IF sequencer = None THEN None
        ELSE Some(SetFromIterDedup(<< Unwrap(sequencer) >>))

\* ValidatorsProvider::validators
ProviderValidators(epoch) == PolicyValidators(epoch)

\* ValidatorsProvider::quorum_threshold
ProviderQuorumThreshold(epoch) == PolicyQuorumThreshold(epoch)

\* sequencers(epoch) is called on the EpochSequencersProvider
SequencersCall ==
    \E epoch \in QueryEpochs :
        PolicyQuery("provider.sequencers", Some(epoch), EpochSequencers(epoch))

\* validators(epoch) is called on the ValidatorsProvider
ValidatorsCall ==
    \E epoch \in QueryEpochs :
        PolicyQuery("provider.validators", Some(epoch),
                    ProviderValidators(epoch))

\* quorum_threshold(epoch) is called on the ValidatorsProvider
QuorumThresholdCall ==
    \E epoch \in QueryEpochs :
        PolicyQuery("provider.quorum_threshold", Some(epoch),
                    ProviderQuorumThreshold(epoch))

\* The keys, the sequencer lists and the epoch maps a
\* StaticSequencersProvider is built from, and the epochs it is asked about.
StaticKeys == 1 .. 2
StaticKeyLists == UNION {[1 .. k -> StaticKeys] : k \in 0 .. MaxStaticLen}
StaticMapEpochs == {0, SingleEpochs}
StaticMaps == UNION {[d -> StaticKeyLists] : d \in SUBSET StaticMapEpochs}
StaticQueryEpochs == {0, 1, SingleEpochs - 1, SingleEpochs, SingleEpochs + 1}

\* StaticSequencersProvider::new
StaticNew(epochs) ==
    [ctor |-> "new", sequencer |-> None, given |-> epochs,
     epochs |-> [e \in DOMAIN epochs |-> SetFromIterDedup(epochs[e])]]

\* single with the last epoch of the range counted in
StaticSingleInclusive(sequencer) ==
    [ctor |-> "single", sequencer |-> Some(sequencer), given |-> << >>,
     epochs |-> [e \in 0 .. SingleEpochs |->
                    SetFromIterDedup(<< sequencer >>)]]

\* StaticSequencersProvider::single
StaticSingle(sequencer) ==
    [ctor |-> "single", sequencer |-> Some(sequencer), given |-> << >>,
     epochs |-> [e \in 0 .. SingleEpochs - 1 |->
                    SetFromIterDedup(<< sequencer >>)]]

\* <StaticSequencersProvider as SequencersProvider>::sequencers
StaticSequencers(epoch) ==
    IF epoch \in DOMAIN sp_provider.epochs
    THEN Some(sp_provider.epochs[epoch])
    ELSE None

\* sequencers(epoch) is called on the StaticSequencersProvider
StaticSequencersCall ==
    \E epoch \in StaticQueryEpochs :
        PolicyQuery("static.sequencers", Some(epoch), StaticSequencers(epoch))

\* StaticSequencersProvider::single or StaticSequencersProvider::new
StaticInit ==
    /\ sp_provider \in {StaticSingle(k) : k \in StaticKeys}
                          \cup {StaticNew(epochs) : epochs \in StaticMaps}
    /\ CoreIdle
    /\ NoGroup
    /\ NoStream
    /\ NoDemo

StaticNext == StaticSequencersCall

StaticSpec == StaticInit /\ [][StaticNext]_vars

\* EpochSequencersProvider::new and ValidatorsProvider::new over a policy
\* built with any quorum_threshold
ProviderInit == PolicyInitWith(0 .. MaxThreshold)

ProviderNext ==
    \/ PolicyAdvanceEpoch
    \/ PolicyPollRead
    \/ PolicyPollLock
    \/ PolicyPollWrite
    \/ SequencersCall
    \/ ValidatorsCall
    \/ QuorumThresholdCall

ProviderSpec == ProviderInit /\ [][ProviderNext]_vars

(* ----------------------------------------------------------------- claims *)
\* the step just taken is a call of acknowledge
AckStep == calls' = calls + 1 /\ ret'.op = "acknowledge"

\* C1: when commit(p) returned Ok and a later acknowledge() returns Some(p),
\* then right after that acknowledge latest() is Some(p) and
\* get_by_height(p.height()) is Some(p).
C1_CertifiedIsLatestAndIndexed ==
    (ret.op = "acknowledge" /\ IsSome(ret.out) /\ ret.out = lastOk)
        => /\ latest_certified = ret.out
           /\ GetByHeight(Unwrap(ret.out).height) = ret.out

\* C1's case: acknowledge has just certified the payload of a commit that
\* had returned Ok.
C1_Witness ==
    /\ ret.op = "acknowledge"
    /\ IsSome(ret.out)
    /\ ret.out = lastOk
    /\ pc["c1"] = "idle"

\* the larger of two numbers
Max(a, b) == IF a >= b THEN a ELSE b

\* C2: after submit_proposal(p, t) with no further submit_proposal,
\* acknowledge() returns Some exactly on the call that brings the ack count
\* to the threshold (the t-th call; the first one when t = 0), what it returns
\* is Some(p), every other call returns None, and a call after the
\* certification changes no state of the automaton.
C2_AckReturnsSomeOnce ==
    [][(AckStep /\ IsSome(subThr)) =>
          /\ IsSome(ret'.out) <=> (ackCalls' = Max(Unwrap(subThr), 1))
          /\ IsSome(ret'.out) =>
                /\ IsSome(pending)
                /\ ret'.out = Some(Unwrap(pending).payload)
          /\ (ackCalls' > Max(Unwrap(subThr), 1)) => UNCHANGED automaton
      ]_vars

\* C2's case: a proposal with threshold 2 was certified by the second
\* acknowledge, and a third acknowledge has returned None.
C2_Witness ==
    /\ subThr = Some(2)
    /\ ackCalls = 3
    /\ ret.op = "acknowledge"
    /\ ret.out = None
    /\ pending = None
    /\ IsSome(latest_certified)

\* C3 as stated: any two consecutive successful commits have heights h and
\* h + 1, whatever happened between them.
C3_ConsecutiveHeights ==
    (ret.op = "commit" /\ ret.err = "Ok" /\ IsSome(ret.prev))
        => Unwrap(lastOk).height = Unwrap(ret.prev).height + 1

\* C3, amended: two consecutive successful commits p_i, p_i+1 have heights h
\* and h + 1 when p_i was the latest certified payload at the moment
\* commit(p_i+1) validated its payload.
C3_ConsecutiveHeightsWhenCertified ==
    (ret.op = "commit" /\ ret.err = "Ok" /\ IsSome(ret.prev) /\ ret.chained)
        => Unwrap(lastOk).height = Unwrap(ret.prev).height + 1

\* C3's case: a second commit has returned Ok after the first one's payload
\* was certified.
C3_Witness ==
    /\ ret.op = "commit"
    /\ ret.err = "Ok"
    /\ IsSome(ret.prev)
    /\ ret.chained
    /\ latest_certified = ret.prev

\* C4: whenever acknowledge certifies a committed payload p with
\* p.parent() = Some(d), d is the digest of the payload that was
\* latest_certified just before p was certified.
C4_ParentIsPreviousCertified ==
    [][(AckStep /\ IsSome(ret'.out) /\ IsSome(Unwrap(ret'.out).parent)) =>
          /\ IsSome(latest_certified)
          /\ Unwrap(ret'.out).parent = Some(Digest(Unwrap(latest_certified)))
      ]_vars

\* C5: in every reachable state, latest_certified = Some(p) implies
\* by_height[p.height()] = p.
C5_LatestIsIndexed ==
    IsSome(latest_certified)
        => GetByHeight(Unwrap(latest_certified).height) = latest_certified

\* C6: no reachable state has the same payload as latest_certified and as the
\* pending proposal.
C6_LatestNotPending ==
    ~ /\ IsSome(latest_certified)
      /\ IsSome(pending)
      /\ Unwrap(pending).payload = Unwrap(latest_certified)

\* C7: the height of latest() never decreases, and latest() has the greatest
\* height among the payloads in by_height.
C7_LatestIsNewest ==
    /\ [](\A h \in DOMAIN by_height :
             IsSome(latest_certified) /\ h <= Unwrap(latest_certified).height)
    /\ [][IsSome(latest_certified) =>
             /\ IsSome(latest_certified')
             /\ Unwrap(latest_certified').height
                    >= Unwrap(latest_certified).height
         ]_vars

\* the step just taken is a call of commit (its sequencer check)
CommitCallStep == calls' = calls + 1 /\ ret'.op \in {"commit", "step"}

\* C8: when is_sequencer is false as commit is called (also before start()),
\* commit returns NotSequencer whatever the payload, and latest_certified,
\* by_height, pending and the conductor state are left unchanged.
C8_NotSequencerRejected ==
    [][(CommitCallStep /\ ~is_sequencer) =>
          /\ ret'.op = "commit"
          /\ ret'.err = "NotSequencer"
          /\ UNCHANGED << automaton, conductor, callers >>
      ]_vars

\* C8's case: commit was the first call on a conductor whose epoch manager
\* names the local node sequencer, before start(), and returned NotSequencer.
C8_Witness ==
    /\ ret.op = "commit"
    /\ ret.err = "NotSequencer"
    /\ calls = 1
    /\ ~running
    /\ em_is_sequencer

\* C9: when the sequencer commits a payload whose height differs from
\* next_height(), validate fails, commit returns InvalidHeight with expected =
\* next_height() and got = payload.height(), and no step of the commit changes
\* latest_certified, by_height or pending.
C9_InvalidHeightRejected ==
    [][\A c \in Committers :
          LET expected_next ==
                  IF IsSome(latest_certified)
                  THEN Unwrap(latest_certified).height + 1 ELSE 0
          IN  /\ (pc[c] = "idle" /\ pc'[c] = "validate") => UNCHANGED automaton
              /\ (pc[c] = "validate" /\ pc'[c] # "validate"
                     /\ Unwrap(arg[c]).height # expected_next) =>
                    /\ pc'[c] = "next_height"
                    /\ UNCHANGED automaton
              /\ (pc[c] = "next_height" /\ pc'[c] # "next_height"
                     /\ Unwrap(arg[c]).height # expected_next) =>
                    /\ ret' = Ret("commit", None, "InvalidHeight",
                                  expected_next, Unwrap(arg[c]).height)
                    /\ UNCHANGED automaton
      ]_vars

\* C9's case: with genesis certified and a proposal pending with one ack, a
\* commit at height 0 returned InvalidHeight{expected 1, got 0}.
C9_Witness ==
    /\ ret.op = "commit"
    /\ ret.err = "InvalidHeight"
    /\ ret.expected = 1
    /\ ret.got = 0
    /\ IsSome(pending)
    /\ Unwrap(pending).acks = 1
    /\ latest_certified = Some([height |-> 0, data |-> 1, parent |-> None])

\* C10: commit returns ValidationFailed only for a payload whose height is the
\* expected next height and whose parent is Some(d) with d different from the
\* digest of the latest certified payload; never for a payload with no parent.
C10_ValidationFailedOnlyOnParentMismatch ==
    [][\A c \in Committers :
          (pc[c] = "next_height" /\ pc'[c] = "idle"
              /\ ret'.err = "ValidationFailed") =>
             /\ IsSome(Unwrap(arg[c]).parent)
             /\ Unwrap(arg[c]).height =
                    (IF IsSome(latest_certified)
                     THEN Unwrap(latest_certified).height + 1 ELSE 0)
             /\ Unwrap(arg[c]).parent #
                    (IF IsSome(latest_certified)
                     THEN Some(Digest(Unwrap(latest_certified))) ELSE None)
      ]_vars

\* C11: validate(payload) returns true iff the height is latest.height() + 1
\* (0 when nothing is certified) and the parent is None or is Some(d) with a
\* latest certified payload of digest d; validate changes no state.
C11_ValidateIff ==
    [][\A c \in Committers :
          (pc[c] = "validate" /\ pc'[c] # "validate") =>
             LET payload == Unwrap(arg[c])
                 height_ok ==
                     \/ /\ latest_certified = None
                        /\ payload.height = 0
                     \/ /\ latest_certified # None
                        /\ payload.height = latest_certified[1].height + 1
                 parent_ok ==
                     \/ payload.parent = None
                     \/ /\ latest_certified # None
                        /\ payload.parent[1] = Digest(latest_certified[1])
             IN  /\ (pc'[c] = "epoch") <=> (height_ok /\ parent_ok)
                 /\ (pc'[c] = "next_height") <=> ~(height_ok /\ parent_ok)
                 /\ UNCHANGED << automaton, conductor >>
      ]_vars

\* C11's case: on an empty automaton validate has rejected a payload of
\* height 0 that names a parent.
C11_Witness ==
    /\ pc["c1"] = "next_height"
    /\ latest_certified = None
    /\ by_height = << >>
    /\ Unwrap(arg["c1"]).height = 0
    /\ IsSome(Unwrap(arg["c1"]).parent)

\* C12: the proposal a commit submits is {payload, acks = 0, threshold = T},
\* T being epoch_manager.quorum_threshold(current_epoch) when that is Some and
\* the configured quorum_threshold only when it is None; it is still the
\* pending proposal when commit returns Ok with no acknowledge in between.
C12_CommitPendingThreshold ==
    [][\A c \in Committers :
          LET T == IF em_quorum # None THEN em_quorum[1] ELSE DefaultQuorum
              proposal == [payload |-> Unwrap(arg[c]), acks |-> 0,
                           threshold |-> T]
          IN  /\ (pc[c] = "submit" /\ pc'[c] = "await") =>
                    pending' = Some(proposal)
              /\ (pc[c] = "await" /\ pc'[c] = "idle" /\ ret'.err = "Ok"
                     /\ ackCalls = 0) =>
                    pending = Some(proposal)
      ]_vars

\* C12's case: over an epoch manager without a quorum threshold, a commit has
\* returned Ok and its payload is pending with the configured threshold.
C12_Witness ==
    /\ ret.op = "commit"
    /\ ret.err = "Ok"
    /\ em_quorum = None
    /\ IsSome(pending)
    /\ Some(Unwrap(pending).payload) = lastOk
    /\ Unwrap(pending).acks = 0
    /\ Unwrap(pending).threshold = DefaultQuorum

\* the step just taken is a direct call of submit_proposal
DirectSubmitStep == calls' = calls + 1 /\ ret'.op = "submit_proposal"

\* C13: a submit_proposal made while a proposal is pending, directly or by a
\* commit, replaces it by the new payload with acks = 0 and the new
\* threshold; the acks of a pending proposal are the acknowledge calls since
\* the submit that created it, and acknowledge certifies nothing but the
\* payload that is pending.
C13_SubmitReplacesPending ==
    /\ [][/\ (DirectSubmitStep /\ IsSome(pending)) =>
                /\ IsSome(pending')
                /\ Unwrap(pending').payload \in DirectPayloads
                /\ Unwrap(pending').acks = 0
                /\ Unwrap(pending').threshold = Unwrap(subThr')
          /\ \A c \in Committers :
                (pc[c] = "submit" /\ pc'[c] = "await" /\ IsSome(pending)) =>
                   pending' = Some([payload |-> Unwrap(arg[c]), acks |-> 0,
                                    threshold |-> thr[c]])
          /\ (AckStep /\ IsSome(ret'.out)) =>
                /\ IsSome(pending)
                /\ ret'.out = Some(Unwrap(pending).payload)
                /\ pending' = None
         ]_vars
    /\ [](IsSome(pending) => Unwrap(pending).acks = ackCalls)

\* C13's case: the proposal of a commit that returned Ok was never certified,
\* another payload was submitted over it, and an acknowledge has been counted
\* for the new proposal alone.
C13_Witness ==
    /\ IsSome(lastOk)
    /\ by_height = << >>
    /\ IsSome(pending)
    /\ Unwrap(pending).payload # Unwrap(lastOk)
    /\ Unwrap(pending).threshold = 2
    /\ Unwrap(pending).acks = 1
    /\ ret.op = "acknowledge"
    /\ calls = 5

\* the step just taken is a call of certify
CertifyStep == calls' = calls + 1 /\ ret'.op = "certify"

\* C14: certify(p) sets by_height[p.height()] = p, makes p the latest
\* certified payload iff there was none or p's height is strictly greater
\* than the latest's (else latest_certified is unchanged), and leaves the
\* pending proposal with its ack count unchanged.
C14_CertifyFrame ==
    [][CertifyStep =>
          \E p \in DirectPayloads :
             /\ DOMAIN by_height' = DOMAIN by_height \cup {p.height}
             /\ by_height'[p.height] = p
             /\ \A h \in DOMAIN by_height :
                   h # p.height => by_height'[h] = by_height[h]
             /\ IF latest_certified = None
                   \/ p.height > latest_certified[1].height
                THEN latest_certified' = Some(p)
                ELSE latest_certified' = latest_certified
             /\ pending' = pending
      ]_vars

\* C14's case: certify at height 0 has replaced the entry of by_height while
\* the latest certified payload stays the one of height 1 and a proposal is
\* pending with one ack.
C14_Witness ==
    /\ ret.op = "certify"
    /\ IsSome(latest_certified)
    /\ Unwrap(latest_certified).height = 1
    /\ 0 \in DOMAIN by_height
    /\ by_height[0].data = 2
    /\ IsSome(pending)
    /\ Unwrap(pending).acks = 1

\* the least key of a non-empty by_height
LowestKey(m) == CHOOSE h \in DOMAIN m : \A k \in DOMAIN m : h <= k

\* C15: when the chain is advanced by commit and acknowledge only, the keys of
\* by_height form a range without gaps that starts at the genesis height, or
\* at 0 for an automaton built empty.
C15_NoGaps ==
    /\ [](\A a \in DOMAIN by_height : \A b \in DOMAIN by_height :
             \A h \in a .. b : h \in DOMAIN by_height)
    /\ [][/\ by_height = << >> => DOMAIN by_height' \subseteq {0}
          /\ by_height # << >> =>
                /\ by_height' # << >>
                /\ LowestKey(by_height') = LowestKey(by_height)
         ]_vars

\* C15's case: from a genesis at height 1, two commits were certified by
\* acknowledge and by_height holds the heights 1, 2 and 3.
C15_Witness ==
    /\ DOMAIN by_height = {1, 2, 3}
    /\ ret.op = "acknowledge"
    /\ IsSome(ret.out)
    /\ ret.out = lastOk

\* C16: once every conductor of a round-robin group was started and the
\* epoch change under way, if any, was handled by all of them, a conductor
\* reports leader() == true only if its key is participants[epoch mod n], so
\* at most one of them does.
C16_AtMostOneSequencer ==
    ( /\ \A n \in RRIndexes : nodes[n].running
      /\ rr_change = None \/ rr_handled = RRIndexes )
        => \A n \in RRIndexes :
              nodes[n].is_sequencer =>
                 RRSelfKey(n) = RRParticipants[rr_state[0].epoch % RRNodes]

\* the step just taken is a call of handle_epoch_change
EpochChangeStep == calls' = calls + 1 /\ ret'.op = "handle_epoch_change"

\* C17: handle_epoch_change(change) leaves current_epoch = change.epoch and
\* is_sequencer = change.is_self whatever the state before, does not change
\* running, and applied a second time with the same change it changes
\* nothing.
C17_EpochChangeIdempotent ==
    [][EpochChangeStep =>
          LET change == Unwrap(ret'.change)
          IN  /\ current_epoch' = change.epoch
              /\ is_sequencer' = change.is_self
              /\ running' = running
              /\ (ret.op = "handle_epoch_change" /\ ret.change = ret'.change)
                    => UNCHANGED << conductor, automaton >>
      ]_vars

\* C17's case: a started conductor that start() left without the role, at
\* epoch 0, has handled the change to epoch 1 with is_self = true.
C17_Witness ==
    /\ ret.op = "handle_epoch_change"
    /\ ret.change = Some([epoch |-> 1, is_self |-> TRUE])
    /\ ~em_is_sequencer
    /\ running
    /\ current_epoch = 1
    /\ is_sequencer

\* the step just taken is a call of stop
StopStep == calls' = calls + 1 /\ ret'.op = "stop"

\* C18: stop() sets running to false and changes nothing else: current_epoch,
\* is_sequencer, latest_certified, by_height and the pending proposal with
\* its ack count are as before.
C18_StopFrame ==
    [][StopStep =>
          /\ running' = FALSE
          /\ UNCHANGED << current_epoch, is_sequencer >>
          /\ UNCHANGED << latest_certified, by_height, pending >>
      ]_vars

\* C18's case: stop() was called on a sequencer with a certified payload and
\* a proposal pending with one ack.
C18_Witness ==
    /\ ret.op = "stop"
    /\ ~running
    /\ is_sequencer
    /\ IsSome(latest_certified)
    /\ IsSome(pending)
    /\ Unwrap(pending).acks = 1

\* C19: the epochs of the EpochChange events a subscriber of an epoch policy
\* receives are non-decreasing in receive order, under every interleaving of
\* advance_epoch / poll_and_update calls and subscriber reads.
C19_EpochsNonDecreasing ==
    [][(IsSome(sub_last) /\ IsSome(sub_last')) =>
          Unwrap(sub_last').epoch >= Unwrap(sub_last).epoch
      ]_vars

\* C19's case: the subscriber of a health-based policy polled by two tasks
\* has received the changes to epochs 1, 2 and 3.
C19_Witness ==
    /\ ep_kind = "health"
    /\ sub_next = 4
    /\ IsSome(sub_last)
    /\ Unwrap(sub_last).epoch = 3
    /\ ~sub_ended

\* C20: the stream of a subscriber does not terminate, also when the
\* subscriber has fallen more than 16 events behind: it loses intermediate
\* events only and still receives the changes emitted after the lag.
C20_LaggedStreamContinues == ~sub_ended

\* C21: in the round-robin policy sequencer_idx is epoch mod n in every
\* state, every advance_epoch adds exactly 1 to the epoch, and sequencer(e)
\* returns participants[e mod n] for every epoch e it is asked about, the
\* current one or not.
C21_RoundRobinRotation ==
    /\ [](ep_kind = "round_robin" =>
            /\ rr_state[0].sequencer_idx = rr_state[0].epoch % RRLen(0)
            /\ q_ret.op = "sequencer" =>
                  q_ret.result =
                      Some(rr_config[0].participants[
                               Unwrap(q_ret.arg) % RRLen(0)]))
    /\ [][ep_kind = "round_robin" /\ rr_state' # rr_state =>
              /\ q_ret'.op = "advance_epoch"
              /\ rr_state'[0].epoch = rr_state[0].epoch + 1]_vars

\* 3 participants, 4 advance_epoch calls from epoch 0: the sequencer index is 1
C21_Witness ==
    /\ ep_kind = "round_robin"
    /\ RRLen(0) = 3
    /\ q_ret.op = "advance_epoch"
    /\ rr_state[0].epoch = 4
    /\ rr_state[0].sequencer_idx = 1

\* C22: every EpochChange the round-robin advance_epoch emits carries the new
\* epoch and sequencer = participants[epoch mod n], and its is_self is true
\* exactly when that sequencer is the manager's self_key, whatever participant
\* list and self_key the manager was constructed with.
C22_ChangeNamesSelf ==
    ep_kind = "round_robin" /\ q_ret.op = "advance_epoch" =>
        LET change == Unwrap(q_ret.result)
            participants == rr_config[0].participants
        IN  /\ q_ret.sent = << change >>
            /\ change.epoch = rr_state[0].epoch
            /\ change.sequencer = participants[change.epoch % RRLen(0)]
            /\ change.is_self = (change.sequencer = RRSelfKey(0))

\* a < b for strings, character by character
RECURSIVE LexLess(_, _)
LexLess(a, b) ==
    IF b = << >> THEN FALSE
    ELSE IF a = << >> THEN TRUE
    ELSE IF Head(a) # Head(b) THEN Head(a) < Head(b)
    ELSE LexLess(Tail(a), Tail(b))

\* the step just taken is the return of poll_and_update
PollReturnStep ==
    poll_pc[MainPoller] = "locked" /\ poll_pc'[MainPoller] = "idle"

\* C23: after every poll_and_update of the health-sorted policy the stored
\* leader is the lexicographically smallest URL among the URLs reported
\* healthy and self_url, and a change sent by the poll has is_self true
\* exactly when that URL is self_url.
C23_LeaderIsSmallestHealthy ==
    [][PollReturnStep =>
          LET candidates == hb_healthy' \cup {hb_config.self_url}
          IN  /\ IsSome(hb_leader')
              /\ Unwrap(hb_leader') \in candidates
              /\ \A u \in candidates : ~LexLess(u, Unwrap(hb_leader'))
              /\ \A i \in DOMAIN q_ret'.sent :
                    q_ret'.sent[i].is_self =
                        (Unwrap(hb_leader') = hb_config.self_url)]_vars

\* self_url is the second of three URLs, both peers are healthy, and the poll
\* has elected the first URL with is_self = false
C23_Witness ==
    /\ ep_kind = "health"
    /\ hb_config.self_url = << 2 >>
    /\ hb_healthy = {<< 1 >>, << 3 >>}
    /\ hb_leader = Some(<< 1 >>)
    /\ poll_pc[MainPoller] = "idle"
    /\ q_ret.op = "poll_and_update"
    /\ Len(q_ret.sent) = 1
    /\ ~q_ret.sent[1].is_self

\* C24: a poll_and_update of the health-sorted policy whose computed leader
\* differs from the stored one adds exactly 1 to the epoch, stores the new
\* leader and sends exactly one EpochChange, with the new epoch and is_self
\* true exactly when the new leader is self_url; a poll whose computed leader
\* is the stored one changes neither epoch nor leader and sends nothing.
C24_PollChangesOnNewLeader ==
    [][PollReturnStep =>
          LET new_leader == poll_new_leader[MainPoller]
          IN  IF new_leader # hb_leader
              THEN /\ hb_epoch' = hb_epoch + 1
                   /\ hb_leader' = new_leader
                   /\ Len(q_ret'.sent) = 1
                   /\ q_ret'.sent[1].epoch = hb_epoch + 1
                   /\ q_ret'.sent[1].is_self =
                          (new_leader = Some(hb_config.self_url))
              ELSE /\ hb_epoch' = hb_epoch
                   /\ hb_leader' = hb_leader
                   /\ q_ret'.sent = << >>
                   /\ chan' = chan]_vars

\* the leader has changed twice, and the last poll found it unchanged
C24_Witness ==
    /\ ep_kind = "health"
    /\ hb_epoch = 2
    /\ poll_pc[MainPoller] = "idle"
    /\ q_ret.op = "poll_and_update"
    /\ q_ret.sent = << >>

\* the public key of the node that runs the policy
PolicyOwnKey ==
    IF ep_kind = "round_robin" THEN RRSelfKey(0) ELSE hb_config.public_key

\* C25: right after an epoch policy (round-robin or health-sorted) has emitted
\* an EpochChange, the change's sequencer is what sequencer(change.epoch)
\* returns, and in the health-sorted policy its is_self is true exactly when
\* that sequencer is the emitting node's own key (C22 is the round-robin half
\* of the statement about is_self).
C25_ChangeNamesElected ==
    q_ret.op \in {"advance_epoch", "poll_and_update"} /\ TryRead =>
        \A i \in DOMAIN q_ret.sent :
            LET change == q_ret.sent[i]
            IN  /\ PolicySequencer(change.epoch) = Some(change.sequencer)
                /\ ep_kind = "health" =>
                       change.is_self = (change.sequencer = PolicyOwnKey)

\* the step just taken is a call of op on the policy
PolicyCallStep(op) == q_ret' # q_ret /\ q_ret'.op = op

\* C26: in the health-sorted policy sequencer(e) and validators(e) return
\* None for every e that is not the current epoch; for the current epoch
\* validators(e) is the peer keys and the own key, and sequencer(e) is the key
\* of the node at the current leader URL, None while no leader is elected.
C26_AnswersForCurrentEpochOnly ==
    [][ep_kind = "health" =>
          /\ PolicyCallStep("sequencer") =>
                q_ret'.result =
                    IF Unwrap(q_ret'.arg) # hb_epoch \/ hb_leader = None
                    THEN None
                    ELSE Some(NodeKey(Unwrap(hb_leader)))
          /\ PolicyCallStep("validators") =>
                IF Unwrap(q_ret'.arg) # hb_epoch
                THEN q_ret'.result = None
                ELSE /\ IsSome(q_ret'.result)
                     /\ Range(Unwrap(q_ret'.result)) =
                            Range(hb_config.peer_keys) \cup
                                {hb_config.public_key}]_vars

\* C27: with peer_keys in the order of the original peer_urls, the key the
\* health-sorted policy resolves for a URL (the leader's, in sequencer()) is
\* the key of that node: peer_keys[j] for peer_urls[j] and the own key for
\* self_url, whatever the order of peer_urls.
C27_KeyOfUrl ==
    [][/\ ep_kind = "health"
       /\ PolicyCallStep("sequencer")
       /\ TryRead
       /\ Unwrap(q_ret'.arg) = hb_epoch
       /\ IsSome(hb_leader)
       => LET url == Unwrap(hb_leader)
          IN  /\ url = hb_config.self_url =>
                    q_ret'.result = Some(hb_config.public_key)
              /\ \A j \in DOMAIN hb_config.peer_urls :
                    url = hb_config.peer_urls[j] =>
                        q_ret'.result = Some(hb_config.peer_keys[j])]_vars

\* C28: transfer_leader() on the round-robin policy, on the health-sorted
\* policy and on a conductor over either returns Err(NotSupported), changes
\* neither the policy's state nor the conductor's, and emits no EpochChange.
C28_TransferNotSupported ==
    [][PolicyCallStep("transfer_leader") \/
       PolicyCallStep("conductor.transfer_leader") =>
          /\ q_ret'.result = "NotSupported"
          /\ q_ret'.sent = << >>
          /\ UNCHANGED << rr_state, hb_epoch, hb_leader, hb_healthy, poll_pc,
                          chan, nodes >>]_vars

\* transfer_leader was called on a started conductor over a health-sorted
\* policy that has elected a leader
C28_Witness ==
    /\ ep_kind = "health"
    /\ q_ret.op = "conductor.transfer_leader"
    /\ nodes[0].running
    /\ hb_epoch >= 1
    /\ IsSome(hb_leader)

\* C29: verify(ctx, digest) yields true exactly when the digest is that of
\* the pending payload or of some payload in by_height, in every automaton
\* state, also while a proposal is pending.
C29_VerifyKnownDigest ==
    ret.op = "verify" =>
        LET digest == Unwrap(ret.answer).arg
        IN  Unwrap(ret.answer).value =
                \/ IsSome(pending) /\ Digest(Unwrap(pending).payload) = digest
                \/ \E h \in DOMAIN by_height : Digest(by_height[h]) = digest

\* C30: genesis(epoch) returns the digest of latest_certified when there is
\* one and the EMPTY digest otherwise, whatever the epoch; after
\* with_genesis(g) and before any other call it returns the digest of g.
C30_GenesisIsLatestDigest ==
    /\ \A e1, e2 \in 0 .. MaxEpoch : Genesis(e1) = Genesis(e2)
    /\ ret.op = "genesis" =>
          Unwrap(ret.answer).value =
              IF IsSome(latest_certified)
              THEN Digest(Unwrap(latest_certified))
              ELSE EmptyDigest

\* genesis(epoch), with an epoch other than 0, was called on an automaton
\* built by with_genesis and not called before, and gave a payload's digest
C30_Witness ==
    /\ ret.op = "genesis"
    /\ calls = 0
    /\ IsSome(latest_certified)
    /\ Unwrap(ret.answer).arg = MaxEpoch
    /\ Unwrap(ret.answer).value = Digest(Unwrap(latest_certified))
    /\ Unwrap(ret.answer).value # EmptyDigest

\* C31: the core never panics: next_height(), validate() and commit() return
\* normally, without arithmetic overflow, also after certify() or
\* with_genesis() stored a payload whose height is Height::MAX.
C31_NeverPanics == ret.err # "panic"

\* C32: EpochSequencersProvider.sequencers(epoch) returns Some of the set
\* holding exactly epoch_manager.sequencer(epoch) when that is Some, and None
\* exactly when it is None; ValidatorsProvider.validators(epoch) and
\* quorum_threshold(epoch) return what the epoch manager's methods of the same
\* name return.
C32_ProvidersDelegate ==
    [][/\ PolicyCallStep("provider.sequencers") =>
            LET sequencer == PolicySequencer(Unwrap(q_ret'.arg))
            IN  /\ IsSome(sequencer) =>
                       q_ret'.result = Some({Unwrap(sequencer)})
                /\ sequencer = None <=> q_ret'.result = None
       /\ PolicyCallStep("provider.validators") =>
            q_ret'.result = PolicyValidators(Unwrap(q_ret'.arg))
       /\ PolicyCallStep("provider.quorum_threshold") =>
            q_ret'.result = PolicyQuorumThreshold(Unwrap(q_ret'.arg))]_vars

\* C32's case: after the health-sorted policy elected a leader the provider
\* was asked for the sequencers of the current epoch and returned a set of
\* one key.
C32_Witness ==
    /\ q_ret.op = "provider.sequencers"
    /\ ep_kind = "health"
    /\ hb_epoch > 0
    /\ q_ret.arg = Some(hb_epoch)
    /\ IsSome(q_ret.result)
    /\ Cardinality(Unwrap(q_ret.result)) = 1

C34_CertifiedNeverReplaced ==
    [][\A h \in DOMAIN by_height :
           h \in DOMAIN by_height' /\ by_height'[h] = by_height[h]]_vars

\* C37: the pending proposal is never already certified: in every state with
\* a pending proposal its acks are below its threshold, for every threshold a
\* caller or the epoch manager can supply, 0 included.
C37_PendingBelowThreshold ==
    IsSome(pending) => Unwrap(pending).acks < Unwrap(pending).threshold

\* C38: commit never returns ChannelClosed: every commit that passed the
\* sequencer and validation checks and submitted its proposal returns Ok,
\* under every interleaving with acknowledge, certify and other commits.
C38_NeverChannelClosed ==
    /\ [](ret.err # "ChannelClosed")
    /\ [][\A c \in RaceCommitters :
             (pc[c] = "await" /\ pc'[c] = "idle") =>
                 ret'.op = "commit" /\ ret'.err = "Ok"]_vars

\* C38's case: a commit returned Ok although the other commit call had
\* replaced its proposal before it awaited the one-shot.
C38_Witness ==
    /\ ret.op = "commit"
    /\ ret.err = "Ok"
    /\ pc["c1"] = "idle"
    /\ pc["c2"] = "await"
    /\ IsSome(pending)
    /\ Unwrap(pending).payload # Unwrap(lastOk)

\* C39: the digest of a proposal fires before any acknowledgment is counted
\* for it: in every state in which the pending proposal has acks > 0, the
\* digest of that proposal has been sent on the one-shot of its
\* submit_proposal, under every interleaving of commit and acknowledge calls.
C39_DigestBeforeAcks ==
    (IsSome(pending) /\ Unwrap(pending).acks > 0)
        => digest_sent = Some(Digest(Unwrap(pending).payload))

\* C39's case: an acknowledgment was counted for the proposal of a commit
\* that has not returned yet, and its one-shot already holds the digest.
C39_Witness ==
    /\ IsSome(pending)
    /\ Unwrap(pending).acks > 0
    /\ \E c \in RaceCommitters :
          /\ pc[c] = "await"
          /\ arg[c] = Some(Unwrap(pending).payload)
          /\ rx[c] = Some(Digest(Unwrap(pending).payload))

\* C36: the values an epoch policy's current_epoch() returns never decrease,
\* also when it is called while advance_epoch() or poll_and_update() holds the
\* write lock; hence Conductor::start never installs a current_epoch below an
\* epoch the policy has reached.
C36_CurrentEpochMonotonic ==
    [][/\ (PolicyCallStep("current_epoch") /\ q_ret.op = "current_epoch")
            => Unwrap(q_ret'.result) >= Unwrap(q_ret.result)
       /\ (nodes' # nodes /\ ep_kind = "health")
            => nodes'[0].current_epoch >= hb_epoch]_vars

\* the payloads certified on the automata of the participants 0 .. n
RECURSIVE CertifiedUpTo(_)
CertifiedUpTo(n) ==
    Cardinality(DOMAIN automata[n].by_height)
        + (IF n = 0 THEN 0 ELSE CertifiedUpTo(n - 1))

\* C40: in the demo every sidecar round in which the leader's commit
\* succeeds (the leader commits a payload at its next_height, then
\* acknowledge() is called once on every participant) certifies that payload
\* on the leader, and the sidecar's certified_blocks counter equals the number
\* of payloads certified.
C40_RoundCertifies ==
    /\ sidecar.pc = "certified" =>
          automata[Unwrap(sidecar.leader)].latest_certified = sidecar.payload
    /\ sidecar.pc = "tick" =>
          sidecar.certified_blocks = CertifiedUpTo(RRNodes - 1)

\* C35: in the conductor binary every epoch change the health policy elects
\* is eventually applied to the conductor: once the policy's leader is the
\* local node, and for as long as it stays so, conductor.leader() eventually
\* is true and current_epoch() eventually equals the policy's epoch, for
\* every interleaving of the poller and the listener task.
C35_ChangeEventuallyApplied ==
    (hb_leader = Some(hb_config.self_url))
        ~> \/ nodes[0].is_sequencer /\ nodes[0].current_epoch = hb_epoch
           \/ hb_leader # Some(hb_config.self_url)

====
